---------------------------- MODULE Spec2Model ----------------------------
(***************************************************************************)
(* Dot-Matrix font editor: the column-byte codec, the fixed/dynamic width  *)
(* converters, the glyph editor's operations, the array text parser, the   *)
(* tables of the code emitter, the font importer and its dialog, the live  *)
(* preview and the application's font state with its history.              *)
(*                                                                         *)
(* A bitmap is a sequence of rows, each row a sequence of BOOLEAN.  A      *)
(* glyph record is a record with the fields the code gives it: char,       *)
(* bitmap, bytes and either ascii (records built by the importer) or       *)
(* codePoint (records built by generateChars).  Characters are modelled by *)
(* their character codes (32 is the space character, 10 the line feed), a  *)
(* string is the sequence of its character codes; the text given to the    *)
(* array text parser is the sequence of its characters.  Source indices    *)
(* are 0-based, sequences here are 1-based.                                *)
(***************************************************************************)
EXTENDS Integers, Sequences, FiniteSets, TLC

\* ------------------------------------------------------------------ bounds
\* Largest glyph height and width drawn for the codec and converter inputs.
MaxH == 3
MaxW == 2
\* Longest widths array and offsets array given to the importer; the character
\* set is at most as long in dynamic mode and one longer in fixed mode.
MaxChars == 2
\* Longest data array given to the importer.
MaxData == 4

\* ----------------------------------------------------------- JS primitives
Min(a, b) == IF a < b THEN a ELSE b
Max(a, b) == IF a > b THEN a ELSE b

RECURSIVE Pow2(_)
Pow2(n) == IF n <= 0 THEN 1 ELSE 2 * Pow2(n - 1)

\* a | b on non-negative integers.
RECURSIVE BitOr(_, _)
BitOr(a, b) ==
    IF a = 0 THEN b
    ELSE IF b = 0 THEN a
    ELSE Max(a % 2, b % 2) + 2 * BitOr(a \div 2, b \div 2)

\* (byte >> k) & 1, on the two's complement of byte (\div rounds down).
BitAt(byte, k) == (byte \div Pow2(k)) % 2

\* Array.prototype.slice(start, end): negative indices count from the end.
RelIndex(i, len) == IF i < 0 THEN Max(len + i, 0) ELSE Min(i, len)
Slice(arr, start, end) ==
    LET k == RelIndex(start, Len(arr))
        f == RelIndex(end, Len(arr))
    IN  IF k < f THEN SubSeq(arr, k + 1, f) ELSE <<>>

\* Array(n).fill(v), for n >= 0.
Fill(n, v) == [i \in 1..n |-> v]

\* bitmap[0]?.length || 0
RowWidth(bitmap) == IF Len(bitmap) = 0 THEN 0 ELSE Len(bitmap[1])

\* bitmap[r]?.[c] is truthy (r, c 0-based).
Pixel(bitmap, r, c) ==
    /\ r + 1 \in DOMAIN bitmap
    /\ c + 1 \in DOMAIN bitmap[r + 1]
    /\ bitmap[r + 1][c + 1]

\* [...new Set(chars)]: first-occurrence order.
KeepDuplicates(s) == s
RECURSIVE Unique(_)
Unique(s) ==
    IF s = <<>> THEN <<>>
    ELSE LET front == Unique(SubSeq(s, 1, Len(s) - 1))
             last == s[Len(s)]
         IN  IF \E i \in DOMAIN front : front[i] = last
             THEN front ELSE Append(front, last)

SeqsUpTo(S, n) == UNION {[1..k -> S] : k \in 0..n}
Bitmaps(h, w) == [1..h -> [1..w -> BOOLEAN]]

\* ------------------------------------------------------------------- codec
\* The inner loop over the rows of one column: byte |= 1 << (height-1-r).
RECURSIVE ColumnByte(_, _, _, _)
ColumnByte(bitmap, height, c, r) ==
    IF r >= height THEN 0
    ELSE BitOr(IF Pixel(bitmap, r, c) THEN Pow2(height - 1 - r) ELSE 0,
               ColumnByte(bitmap, height, c, r + 1))

ColumnByteLsbTop(bitmap, height, c, r) ==
    ColumnByte([i \in DOMAIN bitmap |-> bitmap[Len(bitmap) + 1 - i]], height, c, r)

\* ImportFontModal.tsx bitmapToBytes
bitmapToBytesLsbTop(bitmap, height) ==
    [c \in 1..RowWidth(bitmap) |-> ColumnByteLsbTop(bitmap, height, c - 1, 0)]
bitmapToBytes(bitmap, height) ==
    [c \in 1..RowWidth(bitmap) |-> ColumnByte(bitmap, height, c - 1, 0)]

\* App.tsx handleCharUpdate: the bytes of the saved bitmap.
newBytesOffByOne(newBitmap, height) ==
    [c \in 1..RowWidth(newBitmap) |-> ColumnByte(newBitmap, height + 1, c - 1, 0)]
newBytes(newBitmap, height) ==
    [c \in 1..RowWidth(newBitmap) |-> ColumnByte(newBitmap, height, c - 1, 0)]

\* generateChars: the bytes of the final bitmap.
msbTopBytes(finalBitmap, height) ==
    [c \in 1..RowWidth(finalBitmap) |-> ColumnByte(finalBitmap, height, c - 1, 0)]

\* fontParser.ts bytesToBitmap.  It throws for height > 8, and new Array(width)
\* throws a RangeError for a negative width.
bytesToBitmapThrows(width, height) == height > 8 \/ (height > 0 /\ width < 0)
bytesToBitmap(bytes, width, height) ==
    [r \in 1..height |-> [c \in 1..width |->
        BitAt(IF c \in DOMAIN bytes THEN bytes[c] ELSE 0, height - r) = 1]]

\* --------------------------------------------------------- format converter
\* Whether any pixel of the bitmap is set in column x (0-based).
ColumnSet(bitmap, x) == \E y \in DOMAIN bitmap : Pixel(bitmap, y - 1, x)
SetColumns(bitmap) == {x \in 0..(RowWidth(bitmap) - 1) : ColumnSet(bitmap, x)}
SetMin(S) == CHOOSE x \in S : \A y \in S : x <= y
SetMax(S) == CHOOSE x \in S : \A y \in S : x >= y

\* ImportFontModal.tsx convertToDynamic, for one glyph record.
convertToDynamicKeepLeft(charData, originalWidth) ==
    IF charData.char = 32
    THEN LET spaceWidth == Max(1, originalWidth \div 2)
         IN  [charData EXCEPT
                  !.bitmap = [y \in DOMAIN charData.bitmap |-> Fill(spaceWidth, FALSE)],
                  !.bytes = Fill(spaceWidth, 0)]
    ELSE LET cols == SetColumns(charData.bitmap)
         IN  IF cols = {}
             THEN [charData EXCEPT !.bitmap = [y \in DOMAIN charData.bitmap |-> <<>>],
                                   !.bytes = <<>>]
             ELSE [charData EXCEPT
                       !.bitmap = [y \in DOMAIN charData.bitmap |->
                                      Slice(charData.bitmap[y], 0, SetMax(cols) + 1)],
                       !.bytes = Slice(charData.bytes, 0, SetMax(cols) + 1)]
convertToDynamicDropLast(charData, originalWidth) ==
    LET cols == SetColumns(charData.bitmap)
    IN  IF cols = {}
        THEN [charData EXCEPT !.bitmap = [y \in DOMAIN charData.bitmap |-> <<>>],
                              !.bytes = <<>>]
        ELSE [charData EXCEPT
                  !.bitmap = [y \in DOMAIN charData.bitmap |->
                                 Slice(charData.bitmap[y], SetMin(cols), SetMax(cols))],
                  !.bytes = Slice(charData.bytes, SetMin(cols), SetMax(cols))]
convertToDynamicChar(charData, originalWidth) ==
    IF charData.char = 32
    THEN LET spaceWidth == Max(1, originalWidth \div 2)
         IN  [charData EXCEPT
                  !.bitmap = [y \in DOMAIN charData.bitmap |-> Fill(spaceWidth, FALSE)],
                  !.bytes = Fill(spaceWidth, 0)]
    ELSE LET cols == SetColumns(charData.bitmap)
             minX == SetMin(cols)
             maxX == SetMax(cols)
         IN  IF cols = {}
             THEN [charData EXCEPT !.bitmap = [y \in DOMAIN charData.bitmap |-> <<>>],
                                   !.bytes = <<>>]
             ELSE [charData EXCEPT
                       !.bitmap = [y \in DOMAIN charData.bitmap |->
                                      Slice(charData.bitmap[y], minX, maxX + 1)],
                       !.bytes = Slice(charData.bytes, minX, maxX + 1)]

\* convertToDynamic on a font: the new records and the largest new width
\* (the empty glyphs do not count).
convertToDynamic(fontData, originalWidth) ==
    LET newData == [i \in DOMAIN fontData |->
                       convertToDynamicChar(fontData[i], originalWidth)]
        NewWidth(charData) ==
            IF charData.char = 32 THEN Max(1, originalWidth \div 2)
            ELSE IF SetColumns(charData.bitmap) = {} THEN 0
            ELSE SetMax(SetColumns(charData.bitmap)) - SetMin(SetColumns(charData.bitmap)) + 1
        counted == {NewWidth(fontData[i]) : i \in DOMAIN fontData} \cup {0}
    IN  [newData |-> newData, maxWidth |-> SetMax(counted)]

\* ImportFontModal.tsx convertToFixed, for one glyph record.
convertToFixedPadFront(charData, newWidth) ==
    LET currentWidth == Len(charData.bytes)
    IN  IF currentWidth >= newWidth
        THEN [charData EXCEPT
                  !.bitmap = [y \in DOMAIN charData.bitmap |->
                                 Slice(charData.bitmap[y], 0, newWidth)],
                  !.bytes = Slice(charData.bytes, 0, newWidth)]
        ELSE [charData EXCEPT
                  !.bitmap = [y \in DOMAIN charData.bitmap |->
                                 Fill(newWidth - currentWidth, FALSE) \o charData.bitmap[y]],
                  !.bytes = Fill(newWidth - currentWidth, 0) \o charData.bytes]
convertToFixedChar(charData, newWidth) ==
    LET currentWidth == Len(charData.bytes)
    IN  IF currentWidth = newWidth THEN charData
        ELSE IF currentWidth > newWidth
        THEN [charData EXCEPT
                  !.bitmap = [y \in DOMAIN charData.bitmap |->
                                 Slice(charData.bitmap[y], 0, newWidth)],
                  !.bytes = Slice(charData.bytes, 0, newWidth)]
        ELSE [charData EXCEPT
                  !.bitmap = [y \in DOMAIN charData.bitmap |->
                                 charData.bitmap[y] \o Fill(newWidth - currentWidth, FALSE)],
                  !.bytes = charData.bytes \o Fill(newWidth - currentWidth, 0)]

convertToFixed(fontData, newWidth) ==
    [i \in DOMAIN fontData |-> convertToFixedChar(fontData[i], newWidth)]

\* ImportFontModal.tsx alignBitmap.
RowSet(bitmap, r) == \E c \in DOMAIN bitmap[r + 1] : bitmap[r + 1][c]
SetRows(bitmap) == {r \in 0..(Len(bitmap) - 1) : RowSet(bitmap, r)}
alignBitmapKeep(bitmap, direction) == bitmap
alignBitmapShiftOne(bitmap, direction) ==
    IF SetRows(bitmap) = {} THEN bitmap
    ELSE IF direction = "top"
    THEN Tail(bitmap) \o <<Fill(RowWidth(bitmap), FALSE)>>
    ELSE <<Fill(RowWidth(bitmap), FALSE)>> \o SubSeq(bitmap, 1, Len(bitmap) - 1)
alignBitmap(bitmap, direction) ==
    LET height == Len(bitmap)
        width == RowWidth(bitmap)
        rows == SetRows(bitmap)
        firstRowWithPixel == SetMin(rows)
        lastRowWithPixel == SetMax(rows)
    IN  IF height = 0 \/ rows = {} THEN bitmap
        ELSE IF direction = "top"
        THEN LET shiftAmount == firstRowWithPixel
             IN  IF shiftAmount = 0 THEN bitmap
                 ELSE [r \in 1..height |->
                          IF r + shiftAmount <= height
                          THEN bitmap[r + shiftAmount] ELSE Fill(width, FALSE)]
        ELSE LET shiftAmount == (height - 1) - lastRowWithPixel
             IN  IF shiftAmount = 0 THEN bitmap
                 ELSE [r \in 1..height |->
                          IF r - shiftAmount >= 1
                          THEN bitmap[r - shiftAmount] ELSE Fill(width, FALSE)]

\* ------------------------------------------------------------ rasterization
NeverBlankChar(char) == FALSE
\* char.trim() === '' && char !== ' ': tab, line feed, carriage return.
IsBlankChar(char) == char \in {9, 10, 13}

\* generateChars: the final bitmap of one rendered character.  renderedBitmap is
\* what the canvas rasterizer and the render mode's thresholding returned: a
\* bitmap of options.height rows and options.width columns.
finalBitmap(options, char, renderedBitmap) ==
    IF options.dynamicWidth
    THEN IF char = 32
         THEN LET half == options.width \div 2
                  spaceWidth == IF half = 0 THEN 1 ELSE half
              IN  [y \in 1..options.height |-> Fill(spaceWidth, FALSE)]
         ELSE LET cols == SetColumns(renderedBitmap)
              IN  IF cols = {}
                  THEN [y \in 1..options.height |-> <<>>]
                  ELSE [y \in DOMAIN renderedBitmap |->
                           Slice(renderedBitmap[y], SetMin(cols), SetMax(cols) + 1)]
    ELSE IF options.charSpacing > 0
         THEN [y \in DOMAIN renderedBitmap |->
                  renderedBitmap[y] \o Fill(options.charSpacing, FALSE)]
         ELSE renderedBitmap

\* generateChars: one record per character, in order.  raster[char] is the
\* rendered bitmap of char.
generateChars(options, characters, raster) ==
    IF options.width <= 0
    THEN LET totalWidth == IF options.dynamicWidth THEN 0 ELSE options.charSpacing
         IN  [i \in DOMAIN characters |->
                 [char |-> characters[i], codePoint |-> characters[i],
                  bitmap |-> [y \in 1..options.height |->
                                 IF totalWidth <= 0 THEN <<>> ELSE Fill(totalWidth, FALSE)],
                  bytes |-> IF totalWidth <= 0 THEN <<>> ELSE Fill(totalWidth, 0)]]
    ELSE [i \in DOMAIN characters |->
             IF IsBlankChar(characters[i])
             THEN LET totalWidth == IF options.dynamicWidth THEN 0
                                    ELSE options.width + options.charSpacing
                  IN  [char |-> characters[i], codePoint |-> characters[i],
                       bitmap |-> [y \in 1..options.height |-> Fill(totalWidth, FALSE)],
                       bytes |-> Fill(totalWidth, 0)]
             ELSE LET final == finalBitmap(options, characters[i], raster[characters[i]])
                  IN  [char |-> characters[i], codePoint |-> characters[i],
                       bitmap |-> final,
                       bytes |-> msbTopBytes(final, options.height)]]

\* generateChars throws: getImageData of a canvas of height 0 (IndexSizeError),
\* or Array(n) of a negative n (RangeError).
generateCharsThrows(options, characters) ==
    /\ options.width > 0
    /\ \/ options.height <= 0 /\ \E i \in DOMAIN characters : ~IsBlankChar(characters[i])
       \/ /\ ~options.dynamicWidth /\ options.width + options.charSpacing < 0
          /\ \E i \in DOMAIN characters : IsBlankChar(characters[i])

\* ------------------------------------------------------- array text parser
\* fontParser.ts 32-113.  A text is the sequence of its characters, each a
\* string of length one; source indices are 0-based, -1 for "not found".

\* text[i], "" past the end.
At(text, i) == IF i >= 0 /\ i < Len(text) THEN text[i + 1] ELSE ""
indexOf(text, ch) ==
    LET found == {i \in 0..(Len(text) - 1) : At(text, i) = ch}
    IN  IF found = {} THEN -1 ELSE SetMin(found)
lastIndexOf(text, ch) ==
    LET found == {i \in 0..(Len(text) - 1) : At(text, i) = ch}
    IN  IF found = {} THEN -1 ELSE SetMax(found)
substring(text, start, end) == SubSeq(text, start + 1, end)

\* The characters "." does not match and "$" (flag m) stops before.
LineTerminators == {"\n", "\r"}
HexDigits == {"0", "1", "2", "3", "4", "5", "6", "7", "8", "9",
              "a", "b", "c", "d", "e", "f", "A", "B", "C", "D", "E", "F"}
BinDigits == {"0", "1"}
Digits == {"0", "1", "2", "3", "4", "5", "6", "7", "8", "9"}

\* The first place from i on whose character is not in S.
RunEnd(text, i, S) ==
    SetMin({k \in i..Len(text) : At(text, k) \notin S})

\* Line 36, /\*[\s\S]*?\*/ : where the nearest "*/" from j on starts, -1 if none.
BlockEnd(text, j) ==
    LET found == {k \in j..(Len(text) - 2) : At(text, k) = "*" /\ At(text, k + 1) = "/"}
    IN  IF found = {} THEN -1 ELSE SetMin(found)

\* Line 36: text.replace(/\/\*[\s\S]*?\*\/|(\/\/|#).*$/gm, ''), from place i on.
RECURSIVE replaceComments(_, _)
replaceComments(text, i) ==
    IF i >= Len(text) THEN <<>>
    ELSE IF At(text, i) = "/" /\ At(text, i + 1) = "*" /\ BlockEnd(text, i + 2) # -1
    THEN replaceComments(text, BlockEnd(text, i + 2) + 2)
    ELSE IF (At(text, i) = "/" /\ At(text, i + 1) = "/") \/ At(text, i) = "#"
    THEN replaceComments(text, RunEnd(text, i, {At(text, k) : k \in 0..(Len(text) - 1)}
                                                  \ LineTerminators))
    ELSE <<At(text, i)>> \o replaceComments(text, i + 1)

\* Lines 40-56: the part of the stripped text that is tokenized.
bracketContentUnguarded(content) ==
    LET firstBracket == indexOf(content, "{")
        firstSquare == indexOf(content, "[")
        start == IF firstBracket > -1 /\ firstSquare > -1
                 THEN Min(firstBracket, firstSquare)
                 ELSE Max(firstBracket, firstSquare)
        end == Max(lastIndexOf(content, "}"), lastIndexOf(content, "]"))
    IN  IF start # -1 /\ end # -1
        THEN substring(content, start + 1, end)
        ELSE content
bracketContent(content) ==
    LET firstBracket == indexOf(content, "{")
        firstSquare == indexOf(content, "[")
        start == IF firstBracket > -1 /\ firstSquare > -1
                 THEN Min(firstBracket, firstSquare)
                 ELSE Max(firstBracket, firstSquare)
        lastBracket == lastIndexOf(content, "}")
        lastSquare == lastIndexOf(content, "]")
        end == Max(lastBracket, lastSquare)
    IN  IF start # -1 /\ end # -1 /\ start < end
        THEN substring(content, start + 1, end)
        ELSE content

\* Line 60, tokenRegex tried at place i: the place after the match, i if the
\* regex does not match there.  The alternatives are tried in their order.
tokenEnd(content, i) ==
    IF At(content, i) = "0" /\ At(content, i + 1) = "x" /\ At(content, i + 2) \in HexDigits
    THEN RunEnd(content, i + 2, HexDigits)
    ELSE IF At(content, i) = "0" /\ At(content, i + 1) = "b"
            /\ At(content, i + 2) \in BinDigits
    THEN RunEnd(content, i + 2, BinDigits)
    ELSE IF At(content, i) \in Digits
    THEN RunEnd(content, i, Digits)
    ELSE IF At(content, i) = "-" /\ At(content, i + 1) \in Digits
    THEN RunEnd(content, i + 1, Digits)
    ELSE IF At(content, i) = "'" /\ At(content, i + 1) = "\\"
            /\ At(content, i + 2) \notin LineTerminators \cup {""}
            /\ At(content, i + 3) = "'"
    THEN i + 4
    ELSE IF At(content, i) = "'" /\ At(content, i + 1) \notin {"'", ""}
            /\ At(content, i + 2) = "'"
    THEN i + 3
    ELSE i

\* Line 61: content.match(tokenRegex), from place i on; <<>> for no match.
RECURSIVE matches(_, _)
matches(content, i) ==
    IF i >= Len(content) THEN <<>>
    ELSE IF tokenEnd(content, i) = i THEN matches(content, i + 1)
    ELSE <<substring(content, i, tokenEnd(content, i))>>
            \o matches(content, tokenEnd(content, i))

\* The value of a digit, and of a run of digits in a base.
DigitValue(ch) ==
    CASE ch = "0" -> 0 [] ch = "1" -> 1 [] ch = "2" -> 2 [] ch = "3" -> 3
      [] ch = "4" -> 4 [] ch = "5" -> 5 [] ch = "6" -> 6 [] ch = "7" -> 7
      [] ch = "8" -> 8 [] ch = "9" -> 9
      [] ch \in {"a", "A"} -> 10 [] ch \in {"b", "B"} -> 11
      [] ch \in {"c", "C"} -> 12 [] ch \in {"d", "D"} -> 13
      [] ch \in {"e", "E"} -> 14 [] ch \in {"f", "F"} -> 15
RECURSIVE DigitsValue(_, _)
DigitsValue(digits, base) ==
    IF digits = <<>> THEN 0
    ELSE DigitsValue(SubSeq(digits, 1, Len(digits) - 1), base) * base
            + DigitValue(digits[Len(digits)])

\* Line 105: Number(token) of a token the regex matched as a number.
Number(token) ==
    IF At(token, 1) = "x" THEN DigitsValue(substring(token, 2, Len(token)), 16)
    ELSE IF At(token, 1) = "b" THEN DigitsValue(substring(token, 2, Len(token)), 2)
    ELSE IF At(token, 0) = "-" THEN 0 - DigitsValue(substring(token, 1, Len(token)), 10)
    ELSE DigitsValue(token, 10)

\* String.prototype.charCodeAt of the characters the texts are made of.
charCodeAt(ch) ==
    CASE ch = "\n" -> 10 [] ch = "\r" -> 13 [] ch = " " -> 32 [] ch = "\"" -> 34
      [] ch = "#" -> 35 [] ch = "'" -> 39 [] ch = "*" -> 42 [] ch = "," -> 44
      [] ch = "-" -> 45 [] ch = "/" -> 47 [] ch \in Digits -> 48 + DigitValue(ch)
      [] ch = ";" -> 59 [] ch = "=" -> 61
      [] ch \in {"A", "B", "C", "D", "E", "F"} -> 55 + DigitValue(ch)
      [] ch = "[" -> 91 [] ch = "\\" -> 92 [] ch = "]" -> 93
      [] ch \in {"a", "b", "c", "d", "e", "f"} -> 87 + DigitValue(ch)
      [] ch = "n" -> 110 [] ch = "q" -> 113 [] ch = "r" -> 114 [] ch = "t" -> 116
      [] ch = "u" -> 117 [] ch = "x" -> 120 [] ch = "{" -> 123 [] ch = "}" -> 125

\* Line 86: parseInt(digits, 16), -1 for NaN: the leading hex digits count.
parseIntHex(digits) ==
    LET n == RunEnd(digits, 0, HexDigits)
    IN  IF n = 0 THEN -1 ELSE DigitsValue(substring(digits, 0, n), 16)

\* Lines 72-98: the code of a character literal.
charCode(token) ==
    LET charContent == substring(token, 1, Len(token) - 1)
    IN  IF At(charContent, 0) = "\\" /\ Len(charContent) > 1
        THEN CASE At(charContent, 1) = "n" -> 10
               [] At(charContent, 1) = "r" -> 13
               [] At(charContent, 1) = "t" -> 9
               [] At(charContent, 1) = "'" -> 39
               [] At(charContent, 1) = "\"" -> 34
               [] At(charContent, 1) = "\\" -> 92
               [] At(charContent, 1) = "0" -> 0
               [] At(charContent, 1) = "x" ->
                    IF Len(charContent) > 2
                       /\ parseIntHex(substring(charContent, 2, Len(charContent))) # -1
                    THEN parseIntHex(substring(charContent, 2, Len(charContent)))
                    ELSE charCodeAt("x")
               [] OTHER -> charCodeAt(At(charContent, 1))
        ELSE charCodeAt(At(charContent, 0))

\* Lines 69-110: the number a token stands for.
tokenValue(token) ==
    IF At(token, 0) = "'" /\ At(token, Len(token) - 1) = "'"
    THEN charCode(token)
    ELSE Number(token)

\* parseArrayString; the empty text is the falsy one of line 33.
parseArrayString(text) ==
    IF text = <<>> THEN <<>>
    ELSE LET content == bracketContent(replaceComments(text, 0))
             tokens == matches(content, 0)
         IN  [k \in 1..Len(tokens) |-> tokenValue(tokens[k])]

\* ---------------------------------------------------------------- importer
\* parseImportedData's options, the three raw texts already turned into numbers
\* by parseArrayString: dataBytes, widths, offsets, characterSet, charHeight,
\* charWidth, isDynamic.

\* fontParser.ts line 121: the height check.
HeightInvalidZeroAllowed(charHeight) == charHeight < 0 \/ charHeight > 8
HeightInvalid(charHeight) == charHeight <= 0 \/ charHeight > 8

\* The bytes of character i (0-based) of a fixed-width font.
FixedChunkOverlapping(dataBytes, i, charWidth) == Slice(dataBytes, i, i + charWidth)
FixedChunk(dataBytes, i, charWidth) ==
    LET startIndex == i * charWidth
    IN  Slice(dataBytes, startIndex, startIndex + charWidth)

\* fontParser.ts line 131: the lengths are compared when widths is not empty;
\* n is the number of unique characters.
LengthMismatchStrict(n, widths, offsets) == n # Len(widths) \/ n # Len(offsets)
LengthMismatch(n, widths, offsets) ==
    Len(widths) > 0 /\ (n # Len(widths) \/ n # Len(offsets))

\* The dynamic-width loop body throws for character i (1-based here).
DynamicCharError(options, i) ==
    LET width == options.widths[i]
        offset == options.offsets[i]
    IN  IF offset + width > Len(options.dataBytes) THEN "OutOfBounds"
        ELSE IF bytesToBitmapThrows(width, options.charHeight) THEN "RangeError"
        ELSE "none"

DynamicChar(options, char, i) ==
    LET width == options.widths[i]
        offset == options.offsets[i]
        bytes == Slice(options.dataBytes, offset, offset + width)
    IN  [char |-> char, ascii |-> char,
         bitmap |-> bytesToBitmap(bytes, width, options.charHeight),
         bytes |-> bytes]

\* The error parseImportedData throws, "none" when it returns.
parseImportedDataError(options) ==
    LET uniqueChars == Unique(options.characterSet)
        n == Len(uniqueChars)
    IN  IF HeightInvalid(options.charHeight) THEN "InvalidHeight"
        ELSE IF options.isDynamic
        THEN IF LengthMismatch(n, options.widths, options.offsets)
             THEN "ArrayLengthMismatch"
             ELSE IF Len(options.widths) = 0 /\ n > 0 THEN "WidthsEmpty"
             ELSE LET failing == {i \in 1..n : DynamicCharError(options, i) # "none"}
                  IN  IF failing = {} THEN "none"
                      ELSE DynamicCharError(options, SetMin(failing))
        ELSE IF options.charWidth <= 0 THEN "InvalidWidth"
             ELSE IF Len(options.dataBytes) = 0 /\ n > 0 THEN "DataEmpty"
             ELSE IF Len(options.dataBytes) # n * options.charWidth /\ n > 0
             THEN "ArraySizeMismatch"
             ELSE "none"

\* What parseImportedData returns when it does not throw.
parseImportedDataResult(options) ==
    LET uniqueChars == Unique(options.characterSet)
        n == Len(uniqueChars)
    IN  IF options.isDynamic
        THEN LET maxWidth == SetMax({options.widths[i] : i \in 1..n} \cup {0})
             IN  [fontData |-> [i \in 1..n |-> DynamicChar(options, uniqueChars[i], i)],
                  fontOptions |-> [width |-> IF maxWidth > 0 THEN maxWidth ELSE 8,
                                   height |-> options.charHeight,
                                   characterSet |-> options.characterSet,
                                   dynamicWidth |-> TRUE,
                                   charSpacing |-> 0]]
        ELSE [fontData |->
                 [i \in 1..n |->
                     LET bytes == FixedChunk(options.dataBytes, i - 1, options.charWidth)
                     IN  [char |-> uniqueChars[i], ascii |-> uniqueChars[i],
                          bitmap |-> bytesToBitmap(bytes, options.charWidth,
                                                   options.charHeight),
                          bytes |-> bytes]],
              fontOptions |-> [width |-> options.charWidth,
                               height |-> options.charHeight,
                               characterSet |-> options.characterSet,
                               dynamicWidth |-> FALSE,
                               charSpacing |-> 0]]

\* parseImportedData: the thrown error, or the returned font and options.
parseImportedData(options) ==
    IF parseImportedDataError(options) # "none"
    THEN [error |-> parseImportedDataError(options)]
    ELSE [error |-> "none",
          fontData |-> parseImportedDataResult(options).fontData,
          fontOptions |-> parseImportedDataResult(options).fontOptions]

\* ------------------------------------------------------------------- state
VARIABLES
    \* App.tsx
    options,       \* the render options (the fields the glyph data depends on)
    history,       \* useHistory: the font snapshots
    index,         \* useHistory: the cursor, 0-based
    pending,       \* the handleGenerate call awaiting generateFontData, if any
    error,         \* the error message shown, "none" for null
    editingChar,   \* the glyph open in the editor, if any
    \* ImportFontModal.tsx
    isImportModalOpen,
    parsedData,    \* the parse result held by the conversion step, if any
    importError,   \* the dialog's error message, "none" for null
    \* App.tsx, the live preview
    previewText,
    previewData,
    timers,          \* the timers set and neither fired nor cleared
    debounceTimeout, \* debounceTimeout.current: the id of the timer set last
    awaiting,        \* the timer callback at its await, if any
    issued,          \* how many times the effect has run
    applied,         \* the run whose result setPreviewData was called with last
    \* one glyph record run through the codec and the converters
    cSrc,          \* the record the run starts from, with its height and width
    cCur,          \* the record after the functions applied so far
    cOpt,          \* the render options of the generateChars call, if any
    cOps,          \* the names of the functions applied so far, in order
    \* one call of parseImportedData
    pIn,           \* the options of the call
    pOut,          \* what the call threw or returned
    \* one call of parseArrayString
    tIn,           \* the pieces the text is made of, in order
    tOut           \* what the call returned

previewVars == <<previewText, previewData, timers, debounceTimeout, awaiting,
                 issued, applied>>
appVars == <<options, history, index, pending, error, editingChar,
             isImportModalOpen, parsedData, importError, previewVars>>
codecVars == <<cSrc, cCur, cOpt, cOps>>
textVars == <<tIn, tOut>>
importVars == <<pIn, pOut, textVars>>
vars == <<appVars, codecVars, importVars, previewVars>>

NoOptions == [width |-> 0, height |-> 0, charSpacing |-> 0,
              characterSet |-> <<>>, dynamicWidth |-> FALSE]
None == [none |-> TRUE]

\* What each part holds while another part runs.
PreviewIdle ==
    /\ previewText = <<>> /\ previewData = None /\ timers = {}
    /\ debounceTimeout = 0 /\ awaiting = None /\ issued = 0 /\ applied = 0
AppIdle ==
    /\ options = NoOptions /\ history = <<>> /\ index = 0 /\ pending = None
    /\ error = "none" /\ editingChar = None /\ isImportModalOpen = FALSE
    /\ parsedData = None /\ importError = "none"
    /\ PreviewIdle
CodecIdle == cSrc = None /\ cCur = None /\ cOpt = NoOptions /\ cOps = <<>>
TextIdle == tIn = <<>> /\ tOut = None
ImportIdle == pIn = None /\ pOut = None /\ TextIdle

\* ------------------------------------------------ glyph editor's operations
\* CharEditorModal.tsx: the bitmap each handler passes to setBitmap.
widthChanged(prevBitmap, delta) ==
    LET currentWidth == RowWidth(prevBitmap)
        newWidth == Max(0, currentWidth + delta)
    IN  IF newWidth = currentWidth THEN prevBitmap
        ELSE [y \in DOMAIN prevBitmap |->
                 IF delta > 0 THEN prevBitmap[y] \o Fill(delta, FALSE)
                 ELSE Slice(prevBitmap[y], 0, newWidth)]

\* No call of setBitmap when there is no pixel at (x, y).
pixelToggled(bitmap, x, y) ==
    IF y + 1 \in DOMAIN bitmap /\ x + 1 \in DOMAIN bitmap[y + 1]
    THEN [bitmap EXCEPT ![y + 1][x + 1] = ~@]
    ELSE bitmap

shiftedAround(prevBitmap, direction) ==
    IF Len(prevBitmap) = 0 THEN prevBitmap
    ELSE IF direction = "up" THEN Append(Tail(prevBitmap), Head(prevBitmap))
    ELSE IF direction = "down"
    THEN <<prevBitmap[Len(prevBitmap)]>> \o SubSeq(prevBitmap, 1, Len(prevBitmap) - 1)
    ELSE IF RowWidth(prevBitmap) = 0 THEN prevBitmap
    ELSE IF direction = "left"
    THEN [y \in DOMAIN prevBitmap |-> Append(Tail(prevBitmap[y]), Head(prevBitmap[y]))]
    ELSE [y \in DOMAIN prevBitmap |->
             <<prevBitmap[y][Len(prevBitmap[y])]>>
                 \o SubSeq(prevBitmap[y], 1, Len(prevBitmap[y]) - 1)]
shifted(prevBitmap, direction) ==
    LET currentHeight == Len(prevBitmap)
        currentWidth == RowWidth(prevBitmap)
        blankRow == Fill(currentWidth, FALSE)
    IN  IF currentHeight = 0 THEN prevBitmap
        ELSE IF currentWidth = 0 /\ direction \in {"left", "right"} THEN prevBitmap
        ELSE IF direction = "up" THEN Append(Tail(prevBitmap), blankRow)
        ELSE IF direction = "down"
        THEN <<blankRow>> \o SubSeq(prevBitmap, 1, currentHeight - 1)
        ELSE IF direction = "left"
        THEN [y \in DOMAIN prevBitmap |-> Append(Tail(prevBitmap[y]), FALSE)]
        ELSE [y \in DOMAIN prevBitmap |->
                 <<FALSE>> \o SubSeq(prevBitmap[y], 1, Len(prevBitmap[y]) - 1)]

\* ------------------------------------------- codec and converter, case by case
\* The functions above applied, one after the other, to one glyph record.

\* The starting records: an importer's record of a fixed-width font, its bitmap
\* decoded from its bytes; the bytes may carry bits above the height.
CodecInit ==
    /\ AppIdle /\ ImportIdle
    /\ cOps = <<>>
    /\ cOpt = NoOptions
    /\ \E h \in 1..MaxH, w \in 0..MaxW, char \in {32, 65}, high \in {0, 1} :
         \E bitmap \in Bitmaps(h, w) :
            /\ cSrc = [char |-> char, ascii |-> char, bitmap |-> bitmap,
                       bytes |-> [c \in 1..w |->
                                     ColumnByte(bitmap, h, c - 1, 0) + high * Pow2(h)],
                       height |-> h, width |-> w]
            /\ cCur = [char |-> char, ascii |-> char, bitmap |-> bitmap,
                       bytes |-> cSrc.bytes]

ApplyBitmapToBytes ==
    /\ cOps = <<>>
    /\ cCur' = [cCur EXCEPT !.bytes = bitmapToBytes(cCur.bitmap, cSrc.height)]
    /\ cOps' = <<"bitmapToBytes">>
    /\ UNCHANGED <<cSrc, cOpt, appVars, importVars>>

ApplyBytesToBitmap ==
    /\ cOps = <<"bitmapToBytes">>
    /\ ~bytesToBitmapThrows(cSrc.width, cSrc.height)
    /\ cCur' = [cCur EXCEPT !.bitmap = bytesToBitmap(cCur.bytes, cSrc.width, cSrc.height)]
    /\ cOps' = Append(cOps, "bytesToBitmap")
    /\ UNCHANGED <<cSrc, cOpt, appVars, importVars>>

ApplyCharUpdateBytes ==
    /\ cOps = <<>>
    /\ cCur' = [cCur EXCEPT !.bytes = newBytes(cCur.bitmap, cSrc.height)]
    /\ cOps' = <<"handleCharUpdate">>
    /\ UNCHANGED <<cSrc, cOpt, appVars, importVars>>

\* generateChars on the one character, the rasterizer returning cSrc.bitmap.
ApplyGenerateChars ==
    /\ cOps = <<>>
    /\ cSrc.width > 0
    /\ \E dynamicWidth \in BOOLEAN, charSpacing \in 0..1 :
         LET opts == [width |-> cSrc.width, height |-> cSrc.height,
                      charSpacing |-> charSpacing,
                      characterSet |-> <<cSrc.char>>,
                      dynamicWidth |-> dynamicWidth]
             raster == [ch \in {cSrc.char} |-> cSrc.bitmap]
         IN  /\ ~generateCharsThrows(opts, <<cSrc.char>>)
             /\ cCur' = generateChars(opts, <<cSrc.char>>, raster)[1]
             /\ cOpt' = opts
    /\ cOps' = <<"generateChars">>
    /\ UNCHANGED <<cSrc, appVars, importVars>>

ApplyConvertToDynamic ==
    /\ cOps = <<>>
    /\ cCur' = convertToDynamic(<<cCur>>, cSrc.width).newData[1]
    /\ cOps' = <<"convertToDynamic">>
    /\ UNCHANGED <<cSrc, cOpt, appVars, importVars>>

ApplyConvertToFixed ==
    /\ cOps = <<"convertToDynamic">>
    /\ cCur' = convertToFixed(<<cCur>>, cSrc.width)[1]
    /\ cOps' = Append(cOps, "convertToFixed")
    /\ UNCHANGED <<cSrc, cOpt, appVars, importVars>>

\* The trim applied to the trimmed record.
ApplyConvertToDynamicAgain ==
    /\ cOps = <<"convertToDynamic">>
    /\ cCur' = convertToDynamic(<<cCur>>, cSrc.width).newData[1]
    /\ cOps' = Append(cOps, "convertToDynamic")
    /\ UNCHANGED <<cSrc, cOpt, appVars, importVars>>

\* convertToFixed on the record as it is, to any width from 1 on.
ApplyConvertToFixedTo ==
    /\ cOps = <<>>
    /\ \E newFixedWidth \in 1..(MaxW + 1) :
         /\ cCur' = convertToFixed(<<cCur>>, newFixedWidth)[1]
         /\ cOpt' = [newFixedWidth |-> newFixedWidth]
    /\ cOps' = <<"convertToFixed">>
    /\ UNCHANGED <<cSrc, appVars, importVars>>

\* alignBitmap on the record's bitmap, and once more in the same direction.
ApplyAlignBitmap ==
    /\ cOps = <<>>
    /\ \E verticalAlign \in {"top", "bottom"} :
         /\ cCur' = [cCur EXCEPT !.bitmap = alignBitmap(cCur.bitmap, verticalAlign)]
         /\ cOpt' = [verticalAlign |-> verticalAlign]
    /\ cOps' = <<"alignBitmap">>
    /\ UNCHANGED <<cSrc, appVars, importVars>>

ApplyAlignBitmapAgain ==
    /\ cOps = <<"alignBitmap">>
    /\ cCur' = [cCur EXCEPT !.bitmap = alignBitmap(cCur.bitmap, cOpt.verticalAlign)]
    /\ cOps' = Append(cOps, "alignBitmap")
    /\ UNCHANGED <<cSrc, cOpt, appVars, importVars>>

\* The glyph editor opened on the record: one click on a width button, on a
\* pixel of the grid, on a shift button, or a copy from another glyph of the
\* font (all-false or all-true, of any width).
ApplyWidthChange ==
    /\ cOps = <<>>
    /\ \E delta \in {-1, 1} :
         /\ cCur' = [cCur EXCEPT !.bitmap = widthChanged(@, delta)]
         /\ cOpt' = [delta |-> delta]
    /\ cOps' = <<"handleWidthChange">>
    /\ UNCHANGED <<cSrc, appVars, importVars>>

ApplyPixelToggle ==
    /\ cOps = <<>>
    /\ \E x \in 0..(cSrc.width - 1), y \in 0..(cSrc.height - 1) :
         /\ cCur' = [cCur EXCEPT !.bitmap = pixelToggled(@, x, y)]
         /\ cOpt' = [x |-> x, y |-> y]
    /\ cOps' = <<"handlePixelToggle">>
    /\ UNCHANGED <<cSrc, appVars, importVars>>

ApplyShift ==
    /\ cOps = <<>>
    /\ \E direction \in {"up", "down", "left", "right"} :
         /\ cCur' = [cCur EXCEPT !.bitmap = shifted(@, direction)]
         /\ cOpt' = [direction |-> direction]
    /\ cOps' = <<"handleShift">>
    /\ UNCHANGED <<cSrc, appVars, importVars>>

ApplyCopyFromChar ==
    /\ cOps = <<>>
    /\ \E w \in 0..MaxW, pixel \in BOOLEAN :
         LET sourceChar == [ascii |-> 66,
                            bitmap |-> [y \in 1..cSrc.height |-> Fill(w, pixel)]]
         IN  /\ cCur' = [cCur EXCEPT !.bitmap = sourceChar.bitmap]
             /\ cOpt' = [charToCopyAscii |-> sourceChar.ascii]
    /\ cOps' = <<"handleCopyFromChar">>
    /\ UNCHANGED <<cSrc, appVars, importVars>>

CodecNext ==
    \/ ApplyBitmapToBytes
    \/ ApplyBytesToBitmap
    \/ ApplyCharUpdateBytes
    \/ ApplyGenerateChars
    \/ ApplyConvertToDynamic
    \/ ApplyConvertToFixed
    \/ ApplyConvertToDynamicAgain
    \/ ApplyConvertToFixedTo
    \/ ApplyAlignBitmap
    \/ ApplyAlignBitmapAgain
    \/ ApplyWidthChange
    \/ ApplyPixelToggle
    \/ ApplyShift
    \/ ApplyCopyFromChar

SpecCodec == CodecInit /\ [][CodecNext]_vars

\* ------------------------------------------------ array text, case by case
\* One call of parseArrayString on a text put together from pieces.  A piece
\* is a stretch of text of a known kind (an opening bracket, a closing
\* bracket, a whole comment, or other text) with the values its number and
\* character-literal tokens stand for; pieces of other text end in a
\* separator, so that tokens of two pieces never join.
MaxPieces == 4
MaxLiterals == 2

Piece(kind, text, vals) == [kind |-> kind, text |-> text, vals |-> vals]
Pieces ==
    { Piece("text", <<"u", "8", " ", "a", "=">>, <<8>>),
      Piece("text", <<"0", "x", "1", "A", ",">>, <<26>>),
      Piece("text", <<"0", "b", "1", "1", " ">>, <<3>>),
      Piece("text", <<"-", "4", "3", ";">>, <<-43>>),
      Piece("text", <<"'", "A", "'", ",">>, <<65>>),
      Piece("open", <<"{">>, <<>>),
      Piece("open", <<"[">>, <<>>),
      Piece("close", <<"}">>, <<>>),
      Piece("close", <<"]">>, <<>>),
      Piece("comment", <<"/", "*", "9", "]", "\n", "*", "/">>, <<>>),
      Piece("comment", <<"/", "/", "7", "{", "\n">>, <<>>),
      Piece("comment", <<"#", "5", "}", "\n">>, <<>>) }

\* Character literals, each with the code it is written for.
Literal(content, code) ==
    Piece("literal", <<"'">> \o content \o <<"'", ",">>, <<code>>)
Literals ==
    { Literal(<<"A">>, 65), Literal(<<"\\", "n">>, 10), Literal(<<"\\", "r">>, 13),
      Literal(<<"\\", "t">>, 9), Literal(<<"\\", "'">>, 39),
      Literal(<<"\\", "\"">>, 34), Literal(<<"\\", "\\">>, 92),
      Literal(<<"\\", "0">>, 0), Literal(<<"\\", "q">>, 113),
      Literal(<<"\\", "x", "4", "1">>, 65), Literal(<<"\\", "x", "1", "A">>, 26) }

\* "{0x1A, 0x2B, /* x */ 0x3C}"
Example ==
    Piece("example",
          <<"{", "0", "x", "1", "A", ",", " ", "0", "x", "2", "B", ",", " ",
            "/", "*", " ", "x", " ", "*", "/", " ", "0", "x", "3", "C", "}">>,
          <<26, 43, 60>>)

RECURSIVE TextOf(_)
TextOf(pieces) ==
    IF pieces = <<>> THEN <<>> ELSE Head(pieces).text \o TextOf(Tail(pieces))

AllIn(pieces, S) == \A i \in DOMAIN pieces : pieces[i] \in S

TextInit ==
    /\ AppIdle /\ CodecIdle
    /\ pIn = None /\ pOut = None
    /\ tIn = <<>>
    /\ tOut = None

TypePiece ==
    /\ tOut = None
    /\ AllIn(tIn, Pieces)
    /\ Len(tIn) < MaxPieces
    /\ \E piece \in Pieces : tIn' = Append(tIn, piece)
    /\ UNCHANGED <<tOut, pIn, pOut, appVars, codecVars>>

TypeLiteral ==
    /\ tOut = None
    /\ AllIn(tIn, Literals)
    /\ Len(tIn) < MaxLiterals
    /\ \E piece \in Literals : tIn' = Append(tIn, piece)
    /\ UNCHANGED <<tOut, pIn, pOut, appVars, codecVars>>

TypeExample ==
    /\ tOut = None
    /\ tIn = <<>>
    /\ tIn' = <<Example>>
    /\ UNCHANGED <<tOut, pIn, pOut, appVars, codecVars>>

ApplyParseArrayString ==
    /\ tOut = None
    /\ tOut' = [numbers |-> parseArrayString(TextOf(tIn))]
    /\ UNCHANGED <<tIn, pIn, pOut, appVars, codecVars>>

TextNext == TypePiece \/ TypeLiteral \/ TypeExample \/ ApplyParseArrayString

SpecText == TextInit /\ [][TextNext]_vars

\* ------------------------------------------------------------ code emitter
\* types.ts 80-91, generateCode for a dynamic-width font: the tables written
\* out.  currentOffset(fontData, i) is the variable's value when the loop
\* reaches the glyph at index i (0-based).
RECURSIVE currentOffsetAfter(_, _)
currentOffsetAfter(fontData, i) ==
    IF i < 0 THEN 0
    ELSE currentOffsetAfter(fontData, i - 1) + Len(fontData[i + 1].bytes)
RECURSIVE currentOffset(_, _)
currentOffset(fontData, i) ==
    IF i = 0 THEN 0
    ELSE currentOffset(fontData, i - 1) + Len(fontData[i].bytes)

RECURSIVE font_data(_)
font_data(fontData) ==
    IF fontData = <<>> THEN <<>>
    ELSE font_data(SubSeq(fontData, 1, Len(fontData) - 1))
            \o fontData[Len(fontData)].bytes

generateCode(fontData) ==
    [widths |-> [i \in DOMAIN fontData |-> Len(fontData[i].bytes)],
     offsets |-> [i \in DOMAIN fontData |-> currentOffset(fontData, i - 1)],
     font_data |-> font_data(fontData)]

\* --------------------------------------------------- importer, case by case
\* One call of parseImportedData on what the import form holds: the form is
\* filled in and parsed once.

ImportChars == {65, 66}
ImportHeights == {0, 1, 8, 9}
DataVals == {1, 2, 255}
WidthVals == (-1)..MaxW
OffsetVals == {-1, 0, 1}

\* The import form as the dialog opens it.
ImportInit ==
    /\ AppIdle /\ CodecIdle
    /\ pIn = [dataBytes |-> <<>>, widths |-> <<>>, offsets |-> <<>>,
              characterSet |-> <<>>, charHeight |-> 8, charWidth |-> 6,
              isDynamic |-> FALSE]
    /\ pOut = [error |-> "unparsed"]
    /\ TextIdle

\* Parse of a fixed-width form.
ParseFixed ==
    /\ pOut.error = "unparsed"
    /\ \E dataBytes \in SeqsUpTo(DataVals, MaxData),
          characterSet \in SeqsUpTo(ImportChars, MaxChars + 1),
          charHeight \in ImportHeights, charWidth \in 0..MaxW :
         pIn' = [dataBytes |-> dataBytes, widths |-> <<>>, offsets |-> <<>>,
                 characterSet |-> characterSet, charHeight |-> charHeight,
                 charWidth |-> charWidth, isDynamic |-> FALSE]
    /\ pOut' = parseImportedData(pIn')
    /\ UNCHANGED <<appVars, codecVars, textVars>>

\* Parse of a dynamic-width form; the data array holds 1, 2, 3, ... so that a
\* byte tells the place it was taken from.
ParseDynamic ==
    /\ pOut.error = "unparsed"
    /\ \E n \in 0..MaxData,
          widths \in SeqsUpTo(WidthVals, MaxChars),
          offsets \in SeqsUpTo(OffsetVals, MaxChars),
          characterSet \in SeqsUpTo(ImportChars, MaxChars),
          charHeight \in {1, 9} :
         pIn' = [dataBytes |-> [i \in 1..n |-> i], widths |-> widths,
                 offsets |-> offsets, characterSet |-> characterSet,
                 charHeight |-> charHeight, charWidth |-> 6, isDynamic |-> TRUE]
    /\ pOut' = parseImportedData(pIn')
    /\ UNCHANGED <<appVars, codecVars, textVars>>

\* The fonts written out: glyphs of distinct characters with any bytes.
ExportedFonts ==
    {fontData \in SeqsUpTo([char : ImportChars, bytes : SeqsUpTo(DataVals, MaxW)],
                           MaxChars) :
        \A i, j \in DOMAIN fontData : i # j => fontData[i].char # fontData[j].char}

\* Parse of the dynamic-width tables generateCode wrote for a font, with the
\* font's characters in the font's order.
ParseExported ==
    /\ pOut.error = "unparsed"
    /\ \E fontData \in ExportedFonts, charHeight \in {1, 8} :
         LET code == generateCode(fontData)
         IN  pIn' = [dataBytes |-> code.font_data, widths |-> code.widths,
                     offsets |-> code.offsets,
                     characterSet |-> [i \in DOMAIN fontData |-> fontData[i].char],
                     charHeight |-> charHeight, charWidth |-> 6, isDynamic |-> TRUE,
                     exported |-> fontData]
    /\ pOut' = parseImportedData(pIn')
    /\ UNCHANGED <<appVars, codecVars, textVars>>

ImportNext == ParseFixed \/ ParseDynamic \/ ParseExported

SpecImport == ImportInit /\ [][ImportNext]_vars

\* The spec's encoding formula: the sum over the rows r of bit(r,c) * 2^(h-1-r).
RECURSIVE FormulaByte(_, _, _, _)
FormulaByte(bitmap, h, c, r) ==
    IF r >= h THEN 0
    ELSE (IF bitmap[r + 1][c + 1] THEN Pow2(h - 1 - r) ELSE 0)
         + FormulaByte(bitmap, h, c, r + 1)

IsBlank(bitmap) == SetColumns(bitmap) = {}
AllZero(bytes) == \A c \in DOMAIN bytes : bytes[c] = 0

\* C1: decoding, with the bitmap's width and height, the bytes that bitmapToBytes
\* made of a bitmap of 1..8 rows gives back the bitmap.
C1_RoundTrip ==
    cOps = <<"bitmapToBytes", "bytesToBitmap">> => cCur.bitmap = cSrc.bitmap

C1_Witness ==
    /\ cOps = <<"bitmapToBytes", "bytesToBitmap">>
    /\ cSrc.height >= 2 /\ cSrc.width >= 2
    /\ cSrc.bitmap[1][1] /\ ~cSrc.bitmap[2][1] /\ ~cSrc.bitmap[1][2]

\* C3: each of the three encoders (bitmapToBytes, handleCharUpdate, generateChars)
\* gives one byte per column of the bitmap it encodes, equal to the sum over the
\* rows r of bit(r,c) * 2^(height-1-r); on the same bitmap (generateChars in
\* fixed-width mode without spacing encodes the rendered bitmap itself) the three
\* give the same bytes.
C3_EncodingFormula ==
    /\ cOps \in {<<"bitmapToBytes">>, <<"handleCharUpdate">>, <<"generateChars">>} =>
          /\ Len(cCur.bytes) = RowWidth(cCur.bitmap)
          /\ \A c \in DOMAIN cCur.bytes :
                cCur.bytes[c] = FormulaByte(cCur.bitmap, cSrc.height, c - 1, 0)
    /\ cOps \in {<<"bitmapToBytes">>, <<"handleCharUpdate">>} =>
          cCur.bitmap = cSrc.bitmap
    /\ (cOps = <<"generateChars">> /\ ~cOpt.dynamicWidth /\ cOpt.charSpacing = 0) =>
          cCur.bitmap = cSrc.bitmap

C3_Witness ==
    /\ cOps = <<"handleCharUpdate">>
    /\ cSrc.height = 3 /\ cSrc.width >= 1
    /\ cSrc.bitmap[1][1] /\ ~cSrc.bitmap[2][1] /\ cSrc.bitmap[3][1]
    /\ cCur.bytes[1] = 5

\* C4 as claimed: convertToDynamic and then convertToFixed with the original width
\* give back the bitmap and the bytes of every glyph of a fixed-width font.
C4_Original ==
    cOps = <<"convertToDynamic", "convertToFixed">> =>
        cCur.bitmap = cSrc.bitmap /\ cCur.bytes = cSrc.bytes

\* The glyphs the round trip gives back: the bytes of the columns after the last
\* set column are 0, and the glyph has no set pixel or is not the space character
\* and has a set pixel in its first column.
C4_Preserved ==
    LET cols == SetColumns(cSrc.bitmap)
    IN  IF cols = {} THEN AllZero(cSrc.bytes)
        ELSE /\ cSrc.char # 32
             /\ 0 \in cols
             /\ \A c \in DOMAIN cSrc.bytes : c - 1 > SetMax(cols) => cSrc.bytes[c] = 0

\* C4 amended: the round trip gives back the bitmap and the bytes of exactly the
\* glyphs of C4_Preserved; a glyph with an empty first column comes back shifted
\* left, a space character comes back all-false.
C4_RoundTrip ==
    cOps = <<"convertToDynamic", "convertToFixed">> =>
        ((cCur.bitmap = cSrc.bitmap /\ cCur.bytes = cSrc.bytes) <=> C4_Preserved)

C4_Witness ==
    /\ cOps = <<"convertToDynamic", "convertToFixed">>
    /\ cSrc.char # 32 /\ cSrc.width = 2
    /\ SetColumns(cSrc.bitmap) = {0}
    /\ cCur.bitmap = cSrc.bitmap /\ cCur.bytes = cSrc.bytes

\* The result of trimming, for the two functions that trim.
TrimmedTight ==
    LET cols == SetColumns(cSrc.bitmap)
    IN  /\ Len(cCur.bitmap) = Len(cSrc.bitmap)
        /\ \A y \in DOMAIN cCur.bitmap :
              cCur.bitmap[y] = SubSeq(cSrc.bitmap[y], SetMin(cols) + 1, SetMax(cols) + 1)
        /\ ColumnSet(cCur.bitmap, 0)
        /\ ColumnSet(cCur.bitmap, RowWidth(cCur.bitmap) - 1)
TrimmedEmpty ==
    /\ Len(cCur.bitmap) = Len(cSrc.bitmap)
    /\ \A y \in DOMAIN cCur.bitmap : cCur.bitmap[y] = <<>>
    /\ cCur.bytes = <<>>
Trimming ==
    \/ cOps = <<"convertToDynamic">>
    \/ cOps = <<"generateChars">> /\ cOpt.dynamicWidth

\* C5 as claimed: trimming gives the tightest column bounding box of a non-space
\* glyph with a set pixel, and zero columns and no bytes for a glyph with no set
\* pixel.
C5_Original ==
    Trimming =>
        /\ (cSrc.char # 32 /\ ~IsBlank(cSrc.bitmap)) => TrimmedTight
        /\ IsBlank(cSrc.bitmap) => TrimmedEmpty

\* C5 amended: the same, the glyph with no set pixel being a non-space glyph; the
\* space character gets max(1, floor(width / 2)) all-false columns whatever its
\* pixels.
C5_Trim ==
    Trimming =>
        /\ (cSrc.char # 32 /\ ~IsBlank(cSrc.bitmap)) => TrimmedTight
        /\ (cSrc.char # 32 /\ IsBlank(cSrc.bitmap)) => TrimmedEmpty
        /\ cSrc.char = 32 =>
              /\ Len(cCur.bitmap) = Len(cSrc.bitmap)
              /\ \A y \in DOMAIN cCur.bitmap :
                    cCur.bitmap[y] = Fill(Max(1, cSrc.width \div 2), FALSE)

C5_Witness ==
    /\ cOps = <<"convertToDynamic">>
    /\ cSrc.char # 32 /\ cSrc.width = 2 /\ cSrc.height >= 2
    /\ SetColumns(cSrc.bitmap) = {1}
    /\ RowWidth(cCur.bitmap) = 1

\* ------------------------------------------------------- importer's claims
Succeeded == pOut # None /\ pOut.error = "none"
Failed == pOut # None /\ pOut.error \notin {"unparsed", "none"}

\* The places (1-based) of the first occurrence of each character of the set.
FirstPlace(char) ==
    SetMin({k \in DOMAIN pIn.characterSet : pIn.characterSet[k] = char})
DistinctChars == {pIn.characterSet[k] : k \in DOMAIN pIn.characterSet}

\* C6 as claimed: a dynamic-mode import that succeeds has, for every character i,
\* the range offsets[i] .. offsets[i]+widths[i] inside the data array, and glyph i
\* has widths[i] columns and the bytes data[offsets[i] .. offsets[i]+widths[i]).
C6_Original ==
    (Succeeded /\ pIn.isDynamic) =>
        \A i \in DOMAIN pOut.fontData :
            /\ 0 <= pIn.offsets[i]
            /\ 0 <= pIn.widths[i]
            /\ pIn.offsets[i] + pIn.widths[i] <= Len(pIn.dataBytes)
            /\ RowWidth(pOut.fontData[i].bitmap) = pIn.widths[i]
            /\ pOut.fontData[i].bytes =
                   SubSeq(pIn.dataBytes, pIn.offsets[i] + 1,
                          pIn.offsets[i] + pIn.widths[i])

\* C7 as claimed: a dynamic-mode import fails whenever the widths array, the
\* offsets array and the deduplicated character set are not of one length.
C7_Original ==
    (pOut # None /\ pOut.error # "unparsed" /\ pIn.isDynamic
       /\ ~(/\ Len(pIn.widths) = Len(pIn.offsets)
            /\ Len(pIn.widths) = Cardinality(DistinctChars)))
    => Failed

\* C7: a dynamic-mode import fails, and returns no glyph records, when widths is
\* not empty and the widths array, the offsets array and the deduplicated
\* character set are not of one length, and when widths is empty and the
\* character set is not; with widths and the character set both empty and a
\* height in 1..8 it returns an empty font, whatever offsets holds.
C7_LengthValidation ==
    (pOut # None /\ pOut.error # "unparsed" /\ pIn.isDynamic) =>
        LET n == Cardinality(DistinctChars)
        IN  /\ (\/ /\ Len(pIn.widths) > 0
                    /\ ~(n = Len(pIn.widths) /\ n = Len(pIn.offsets))
                 \/ (Len(pIn.widths) = 0 /\ n > 0))
                => (Failed /\ DOMAIN pOut = {"error"})
            /\ (Len(pIn.widths) = 0 /\ n = 0 /\ pIn.charHeight \in 1..8)
                => (Succeeded /\ pOut.fontData = <<>>)

C7_Witness ==
    /\ pOut # None /\ pIn.isDynamic
    /\ pIn.characterSet = <<65, 66>> /\ pIn.widths = <<1>> /\ pIn.offsets = <<0>>
    /\ pIn.charHeight = 1 /\ Len(pIn.dataBytes) = 1
    /\ pOut.error = "ArrayLengthMismatch"

\* C8: a fixed-mode import that succeeds gives one glyph per distinct character,
\* in the order of the character set, glyph i holding the i-th chunk of width
\* bytes of the data array.
C8_FixedSlicing ==
    (Succeeded /\ ~pIn.isDynamic) =>
        /\ Len(pOut.fontData) = Cardinality(DistinctChars)
        /\ \A i \in DOMAIN pOut.fontData :
              /\ pOut.fontData[i].char \in DistinctChars
              /\ Cardinality({c \in DistinctChars :
                                 FirstPlace(c) < FirstPlace(pOut.fontData[i].char)})
                    = i - 1
              /\ pOut.fontData[i].bytes =
                     SubSeq(pIn.dataBytes, (i - 1) * pIn.charWidth + 1,
                            i * pIn.charWidth)

C8_Witness ==
    /\ Succeeded /\ ~pIn.isDynamic
    /\ pIn.characterSet = <<65, 66>> /\ pIn.charWidth = 2
    /\ pIn.dataBytes = <<255, 2, 1, 2>>
    /\ pOut.fontData[1].bytes = <<255, 2>>
    /\ pOut.fontData[2].bytes = <<1, 2>>

C10_Dedup ==
    Succeeded =>
        /\ \A i, j \in DOMAIN pOut.fontData :
              i < j => /\ pOut.fontData[i].char # pOut.fontData[j].char
                       /\ FirstPlace(pOut.fontData[i].char)
                             < FirstPlace(pOut.fontData[j].char)
        /\ {pOut.fontData[i].char : i \in DOMAIN pOut.fontData} = DistinctChars
        /\ \A i \in DOMAIN pOut.fontData :
              IF pIn.isDynamic
              THEN /\ Len(pIn.widths) = Len(pOut.fontData)
                   /\ Len(pIn.offsets) = Len(pOut.fontData)
                   /\ RowWidth(pOut.fontData[i].bitmap) = pIn.widths[i]
                   /\ pOut.fontData[i].bytes =
                          Slice(pIn.dataBytes, pIn.offsets[i],
                                pIn.offsets[i] + pIn.widths[i])
              ELSE /\ Len(pIn.dataBytes) = Len(pOut.fontData) * pIn.charWidth
                   /\ pOut.fontData[i].bytes =
                          SubSeq(pIn.dataBytes, (i - 1) * pIn.charWidth + 1,
                                 i * pIn.charWidth)

C10_Witness ==
    /\ Succeeded /\ ~pIn.isDynamic
    /\ pIn.characterSet = <<65, 65, 66>> /\ pIn.charWidth = 1
    /\ pIn.dataBytes = <<1, 2>>
    /\ Len(pOut.fontData) = 2
    /\ pOut.fontData[2].char = 66 /\ pOut.fontData[2].bytes = <<2>>

\* -------------------------------------------------------------- application
\* App.tsx: the render options, the font history, the glyph editor and the
\* import dialog.  The sizes are scaled down: the form starts at 2 x 2 pixels
\* and the character set "A", not at 6 x 8 and the printable ASCII characters.

\* Longest history, largest font, widest bitmap of the editor, the number of
\* editing steps between opening the editor and Save, and the number of user
\* actions during the 10 ms of generateFontData's timer.
MaxHist == 3
MaxFont == 2
MaxEditW == 2
MaxEdits == 1
MaxDuring == 2

AppChars == {32, 65}
\* What the user types in the character set field.
TypedCharacterSets == {<<65>>}
\* The pixel the user clicks in the editor, and the width typed in the
\* conversion step.
ClickX == {0}
ClickY == {0}
NewFixedWidths == {MaxEditW}

InitOptions == [width |-> 2, height |-> 2, charSpacing |-> 0,
                characterSet |-> <<65>>, dynamicWidth |-> FALSE]

\* The history entries: null, or a font.
Null == [null |-> TRUE]
Snapshot(data) == [null |-> FALSE, data |-> data]

\* useHistory
fontData == history[index + 1]
canUndo == index > 0
canRedoAlways == TRUE
canRedo == index < Len(history) - 1
setKeepTail(h, i, value) == Append(h, value)
set(h, i, value) == Append(SubSeq(h, 1, i + 1), value)

isLoading == pending # None
MainScreen == editingChar = None /\ ~isImportModalOpen

\* A user action: while generateFontData's timer runs there is time for
\* MaxDuring of them.
UserAction ==
    /\ pending # None => pending.during < MaxDuring
    /\ pending' = IF pending = None THEN None
                  ELSE [pending EXCEPT !.during = @ + 1]

CharsOf(data) == [i \in DOMAIN data |-> data[i].char]
CharSet(chars) == {chars[i] : i \in DOMAIN chars}

\* The effect on fontData: the character set follows the font.
characterSetEffectSkipped(opts, snapshot) == opts
characterSetEffect(opts, snapshot) ==
    IF snapshot = Null THEN opts
    ELSE [opts EXCEPT !.characterSet = CharsOf(snapshot.data)]

\* What the canvas and the thresholding return for a character, in the font
\* face used: nothing for the space, the last column for any other character.
Rendered(char, h, w) ==
    {[r \in 1..h |-> [c \in 1..w |-> c \in S]] :
        S \in IF char = 32 THEN {{}} ELSE {{w}}}
Rasters(opts) ==
    {raster \in [AppChars -> UNION {Rendered(char, opts.height, opts.width) :
                                      char \in AppChars}] :
        \A char \in AppChars : raster[char] \in Rendered(char, opts.height, opts.width)}

\* [...].sort((a, b) => a.ascii - b.ascii): the orders the sort may return.  The
\* records of generateChars have no ascii, the comparator returns NaN for them:
\* when no record has one the order is kept, when only some have one the
\* comparator is inconsistent and the order is the implementation's.
HasAscii(c) == "ascii" \in DOMAIN c
Orders(n) == {p \in [1..n -> 1..n] : \A i, j \in 1..n : i # j => p[i] # p[j]}
sortByAscii(data) ==
    LET n == Len(data)
        withAscii == {i \in 1..n : HasAscii(data[i])}
        Sorted(p) == \A i, j \in 1..n :
                        i < j => \/ data[p[i]].ascii < data[p[j]].ascii
                                 \/ /\ data[p[i]].ascii = data[p[j]].ascii
                                    /\ p[i] < p[j]
    IN  IF withAscii = {} THEN {data}
        ELSE IF withAscii = 1..n
        THEN {[i \in 1..n |-> data[p[i]]] : p \in {q \in Orders(n) : Sorted(q)}}
        ELSE {[i \in 1..n |-> data[p[i]]] : p \in Orders(n)}

\* The checks of handleGenerate and handleSync before they render.
RenderError(opts) ==
    IF opts.height > 8 THEN "HeightTooLarge"
    ELSE IF opts.width <= 0 \/ opts.height <= 0 THEN "NotPositive"
    ELSE IF opts.characterSet = <<>> THEN "EmptyCharacterSet"
    ELSE "none"

Init ==
    /\ CodecIdle /\ ImportIdle
    /\ options = InitOptions
    /\ history = <<Null>>
    /\ index = 0
    /\ pending = None
    /\ error = "none"
    /\ editingChar = None
    /\ isImportModalOpen = FALSE
    /\ parsedData = None
    /\ importError = "none"
    /\ PreviewIdle

\* handleGenerate up to its await: the font is set to null, the options are
\* checked, and the call waits for generateFontData with the history and the
\* index it closed over.
handleGenerate ==
    /\ MainScreen /\ ~isLoading
    /\ index + 1 < MaxHist
    /\ history' = set(history, index, Null)
    /\ index' = Len(history') - 1
    /\ error' = RenderError(options)
    /\ pending' = IF RenderError(options) # "none" THEN None
                  ELSE [options |-> options, history |-> history, index |-> index,
                        during |-> 0]
    /\ UNCHANGED <<options, editingChar, isImportModalOpen, parsedData, importError,
                   codecVars, importVars, previewVars>>

\* generateFontData's timer fires and handleGenerate goes on after its await.
\* When generateChars throws in the timer the promise never settles.
handleGenerateResolved ==
    /\ pending # None
    /\ LET characters == Unique(pending.options.characterSet)
       IN  /\ ~generateCharsThrows(pending.options, characters)
           /\ \E raster \in Rasters(pending.options) :
                LET data == generateChars(pending.options, characters, raster)
                IN  /\ history' = set(pending.history, pending.index, Snapshot(data))
                    /\ index' = Len(history') - 1
                    /\ options' = characterSetEffect(options, Snapshot(data))
    /\ pending' = None
    /\ UNCHANGED <<error, editingChar, isImportModalOpen, parsedData, importError,
                   codecVars, importVars, previewVars>>

\* handleSync, lines 227-232: the characters of the set that the font has no
\* glyph for.
charsToAddAll(newCharSet, oldFontData) == newCharSet
charsToAdd(newCharSet, oldFontData) ==
    LET Missing(char) == char \notin CharSet(CharsOf(oldFontData))
    IN  SelectSeq(newCharSet, Missing)

handleSync ==
    /\ MainScreen /\ ~isLoading /\ fontData # Null
    /\ LET newCharSet == Unique(options.characterSet)
           oldFontData == fontData.data
           Kept(charData) == charData.char \in CharSet(newCharSet)
           keptFontData == SelectSeq(oldFontData, Kept)
       IN  IF RenderError(options) # "none"
           THEN /\ error' = RenderError(options)
                /\ UNCHANGED <<options, history, index>>
           ELSE IF /\ charsToAdd(newCharSet, oldFontData) # <<>>
                   /\ generateCharsThrows(options, charsToAdd(newCharSet, oldFontData))
           THEN /\ error' = "RenderFailed"
                /\ UNCHANGED <<options, history, index>>
           ELSE /\ index + 1 < MaxHist
                /\ \E raster \in Rasters(options) :
                     \E finalFontData \in
                          sortByAscii(keptFontData
                                      \o generateChars(options,
                                                       charsToAdd(newCharSet, oldFontData),
                                                       raster)) :
                        /\ history' = set(history, index, Snapshot(finalFontData))
                        /\ index' = Len(history') - 1
                        /\ options' = characterSetEffect(options, Snapshot(finalFontData))
                /\ error' = "none"
    /\ UNCHANGED <<pending, editingChar, isImportModalOpen, parsedData, importError,
                   codecVars, importVars, previewVars>>

\* handleOptionChange of the character set field.
handleOptionChange ==
    /\ MainScreen /\ UserAction
    /\ \E value \in TypedCharacterSets \ {options.characterSet} :
         options' = [options EXCEPT !.characterSet = value]
    /\ UNCHANGED <<history, index, error, editingChar, isImportModalOpen, parsedData,
                   importError, codecVars, importVars, previewVars>>

handleCharDelete ==
    /\ MainScreen /\ UserAction /\ fontData # Null
    /\ index + 1 < MaxHist
    /\ \E indexToDelete \in 0..(Len(fontData.data) - 1) :
         LET newFontData ==
                 [k \in 1..(Len(fontData.data) - 1) |->
                     fontData.data[IF k <= indexToDelete THEN k ELSE k + 1]]
         IN  /\ history' = set(history, index, Snapshot(newFontData))
             /\ index' = Len(history') - 1
             /\ options' = characterSetEffect(options, Snapshot(newFontData))
    /\ UNCHANGED <<error, editingChar, isImportModalOpen, parsedData, importError,
                   codecVars, importVars, previewVars>>

handleCharAdd ==
    /\ MainScreen /\ UserAction
    /\ \E ascii \in AppChars :
         IF ascii \in CharSet(options.characterSet)
         THEN /\ error' = "AlreadyExists"
              /\ UNCHANGED <<options, history, index>>
         ELSE IF generateCharsThrows(options, <<ascii>>)
         THEN /\ error' = "RenderFailed"
              /\ UNCHANGED <<options, history, index>>
         ELSE LET oldFontData == IF fontData = Null THEN <<>> ELSE fontData.data
              IN  /\ index + 1 < MaxHist
                  /\ Len(oldFontData) < MaxFont
                  /\ \E raster \in Rasters(options) :
                       \E newFontData \in
                            sortByAscii(oldFontData
                                        \o generateChars(options, <<ascii>>, raster)) :
                          /\ history' = set(history, index, Snapshot(newFontData))
                          /\ index' = Len(history') - 1
                          /\ options' = characterSetEffect(options, Snapshot(newFontData))
                  /\ UNCHANGED error
    /\ UNCHANGED <<editingChar, isImportModalOpen, parsedData, importError,
                   codecVars, importVars, previewVars>>

undo ==
    /\ UserAction /\ canUndo
    /\ index' = index - 1
    /\ options' = characterSetEffect(options, history[index' + 1])
    /\ UNCHANGED <<history, error, editingChar, isImportModalOpen, parsedData,
                   importError, codecVars, importVars, previewVars>>

redo ==
    /\ UserAction /\ canRedo
    /\ index' = index + 1
    /\ options' = characterSetEffect(options, history[index' + 1])
    /\ UNCHANGED <<history, error, editingChar, isImportModalOpen, parsedData,
                   importError, codecVars, importVars, previewVars>>

\* ------------------------------------------------------------ glyph editor
handleOpenEditor ==
    /\ MainScreen /\ UserAction /\ fontData # Null
    /\ \E i \in 0..(Len(fontData.data) - 1) :
         editingChar' = [char |-> fontData.data[i + 1], index |-> i,
                         bitmap |-> fontData.data[i + 1].bitmap, edits |-> 0]
    /\ UNCHANGED <<options, history, index, error, isImportModalOpen, parsedData,
                   importError, codecVars, importVars, previewVars>>

\* An editing step of CharEditorModal.tsx changes the editor's bitmap only.
Editing ==
    /\ editingChar # None /\ editingChar.edits < MaxEdits
    /\ UserAction
    /\ UNCHANGED <<options, history, index, error, isImportModalOpen, parsedData,
                   importError, codecVars, importVars, previewVars>>

\* The width buttons are shown for a dynamic-width font and the minus button is
\* disabled at width 0.
handleWidthChange ==
    /\ Editing /\ options.dynamicWidth
    /\ \E delta \in {-1, 1} :
         LET currentWidth == RowWidth(editingChar.bitmap)
             newWidth == Max(0, currentWidth + delta)
         IN  /\ delta < 0 => currentWidth > 0
             /\ newWidth <= MaxEditW
             /\ editingChar' = [editingChar EXCEPT !.edits = @ + 1,
                                                   !.bitmap = widthChanged(@, delta)]

handlePixelToggle ==
    /\ Editing
    /\ \E x \in ClickX, y \in ClickY :
         /\ y + 1 \in DOMAIN editingChar.bitmap
         /\ x + 1 \in DOMAIN editingChar.bitmap[y + 1]
         /\ editingChar' = [editingChar EXCEPT !.edits = @ + 1,
                                               !.bitmap = pixelToggled(@, x, y)]

handleShift ==
    /\ Editing
    /\ \E direction \in {"up", "down", "left", "right"} :
         editingChar' = [editingChar EXCEPT !.edits = @ + 1,
                                            !.bitmap = shifted(@, direction)]

\* The source is found by its ascii: a record without one is never found.
handleCopyFromChar ==
    /\ Editing
    /\ \E charToCopyAscii \in AppChars :
         LET fullFontData == IF fontData = Null THEN <<>> ELSE fontData.data
             found == {i \in DOMAIN fullFontData :
                          /\ HasAscii(fullFontData[i])
                          /\ fullFontData[i].ascii = charToCopyAscii}
         IN  /\ found # {}
             /\ editingChar' = [editingChar EXCEPT
                                   !.edits = @ + 1,
                                   !.bitmap = fullFontData[SetMin(found)].bitmap]

\* The editor's onClose.
handleClose ==
    /\ editingChar # None /\ UserAction
    /\ editingChar' = None
    /\ UNCHANGED <<options, history, index, error, isImportModalOpen, parsedData,
                   importError, codecVars, importVars, previewVars>>

\* App.tsx handleCharUpdate, called by the editor's Save with the edited bitmap.
handleCharUpdate ==
    /\ editingChar # None /\ UserAction
    /\ IF fontData = Null
       THEN UNCHANGED <<history, index, options, editingChar>>
       ELSE LET charIndex == editingChar.index
                newBitmap == editingChar.bitmap
                newFontData ==
                    [i \in DOMAIN fontData.data |->
                        IF i - 1 = charIndex
                        THEN [fontData.data[i] EXCEPT
                                 !.bitmap = newBitmap,
                                 !.bytes = newBytes(newBitmap, options.height)]
                        ELSE fontData.data[i]]
            IN  /\ index + 1 < MaxHist
                /\ history' = set(history, index, Snapshot(newFontData))
                /\ index' = Len(history') - 1
                /\ options' = characterSetEffect(options, Snapshot(newFontData))
                /\ editingChar' = None
    /\ UNCHANGED <<error, isImportModalOpen, parsedData, importError,
                   codecVars, importVars, previewVars>>

\* ----------------------------------------------------------- import dialog
\* What the user fills in.  With height 2 the byte 2 is the top pixel, 1 the
\* bottom pixel and 4 a bit above the glyph.
FixedForm(characterSet, charWidth, dataBytes) ==
    [dataBytes |-> dataBytes, widths |-> <<>>, offsets |-> <<>>,
     characterSet |-> characterSet, charHeight |-> 2, charWidth |-> charWidth,
     isDynamic |-> FALSE]
DynamicForm(characterSet, widths, offsets, dataBytes) ==
    [dataBytes |-> dataBytes, widths |-> widths, offsets |-> offsets,
     characterSet |-> characterSet, charHeight |-> 2, charWidth |-> 6,
     isDynamic |-> TRUE]
AppForms ==
    {FixedForm(<<32, 65, 32>>, 1, <<4, 2>>),
     FixedForm(<<65>>, 2, <<2>>),
     DynamicForm(<<65>>, <<2>>, <<-1>>, <<2>>)}

\* The Import button.
handleOpenImport ==
    /\ MainScreen /\ UserAction
    /\ isImportModalOpen' = TRUE
    /\ UNCHANGED <<options, history, index, error, editingChar, parsedData,
                   importError, codecVars, importVars, previewVars>>

\* The dialog's onClose: the dialog and its state are dropped.
handleCloseImport ==
    /\ isImportModalOpen /\ UserAction
    /\ isImportModalOpen' = FALSE
    /\ parsedData' = None
    /\ importError' = "none"
    /\ UNCHANGED <<options, history, index, error, editingChar, codecVars, importVars, previewVars>>

handleParseAndPreview ==
    /\ isImportModalOpen /\ parsedData = None /\ UserAction
    /\ \E form \in AppForms :
         LET result == parseImportedData(form)
         IN  IF result.error # "none"
             THEN /\ importError' = result.error
                  /\ UNCHANGED parsedData
             ELSE /\ importError' = "none"
                  /\ parsedData' = [fontData |-> result.fontData,
                                    fontOptions |-> result.fontOptions,
                                    conversionMode |-> "keep",
                                    verticalAlign |-> "keep",
                                    newFixedWidth |->
                                        IF result.fontOptions.width = 0 THEN 8
                                        ELSE result.fontOptions.width]
    /\ UNCHANGED <<options, history, index, error, editingChar, isImportModalOpen,
                   codecVars, importVars, previewVars>>

\* The Back button of the conversion step.
handleBack ==
    /\ parsedData # None /\ UserAction
    /\ parsedData' = None
    /\ UNCHANGED <<options, history, index, error, editingChar, isImportModalOpen,
                   importError, codecVars, importVars, previewVars>>

\* The radio buttons and the width field of the conversion step.
ConversionChoices ==
    [name : {"conversionMode"}, value : {"keep", "convert"}]
        \cup [name : {"verticalAlign"}, value : {"keep", "top", "bottom"}]
        \cup [name : {"newFixedWidth"}, value : NewFixedWidths]
selectConversion ==
    /\ parsedData # None /\ UserAction
    /\ \E choice \in ConversionChoices :
         /\ parsedData[choice.name] # choice.value
         /\ parsedData' = [parsedData EXCEPT ![choice.name] = choice.value]
    /\ UNCHANGED <<options, history, index, error, editingChar, isImportModalOpen,
                   importError, codecVars, importVars, previewVars>>

\* handleFinalImport's font and options.
finalDataAsParsed(parsed, conversionMode, newFixedWidth, verticalAlign) ==
    [fontData |-> parsed.fontData, fontOptions |-> parsed.fontOptions]
finalData(parsed, conversionMode, newFixedWidth, verticalAlign) ==
    LET converted ==
            IF conversionMode # "convert"
            THEN [fontData |-> parsed.fontData, fontOptions |-> parsed.fontOptions]
            ELSE IF parsed.fontOptions.dynamicWidth
            THEN [fontData |-> convertToFixed(parsed.fontData, newFixedWidth),
                  fontOptions |-> [parsed.fontOptions EXCEPT
                                      !.dynamicWidth = FALSE,
                                      !.width = newFixedWidth,
                                      !.charSpacing = 1]]
            ELSE LET dyn == convertToDynamic(parsed.fontData, parsed.fontOptions.width)
                 IN  [fontData |-> dyn.newData,
                      fontOptions |-> [parsed.fontOptions EXCEPT
                                          !.dynamicWidth = TRUE,
                                          !.width = dyn.maxWidth,
                                          !.charSpacing = 0]]
        tempFontData == converted.fontData
        tempFontOptions == converted.fontOptions
    IN  [fontData |->
             IF verticalAlign = "keep" THEN tempFontData
             ELSE [i \in DOMAIN tempFontData |->
                      LET newBitmap == alignBitmap(tempFontData[i].bitmap, verticalAlign)
                      IN  [tempFontData[i] EXCEPT
                              !.bitmap = newBitmap,
                              !.bytes = bitmapToBytes(newBitmap, tempFontOptions.height)]],
         fontOptions |-> tempFontOptions]

\* handleFinalImport and App.tsx handleImport, which closes the dialog.
handleFinalImport ==
    /\ parsedData # None /\ UserAction
    /\ index + 1 < MaxHist
    /\ LET data == finalData(parsedData, parsedData.conversionMode,
                             parsedData.newFixedWidth, parsedData.verticalAlign)
       IN    /\ history' = set(history, index, Snapshot(data.fontData))
             /\ index' = Len(history') - 1
             /\ options' = characterSetEffect(data.fontOptions, Snapshot(data.fontData))
    /\ error' = "none"
    /\ isImportModalOpen' = FALSE
    /\ parsedData' = None
    /\ importError' = "none"
    /\ UNCHANGED <<editingChar, codecVars, importVars, previewVars>>

Next ==
    \/ handleGenerate
    \/ handleGenerateResolved
    \/ handleSync
    \/ handleOptionChange
    \/ handleCharDelete
    \/ handleCharAdd
    \/ undo
    \/ redo
    \/ handleOpenEditor
    \/ handleWidthChange
    \/ handlePixelToggle
    \/ handleShift
    \/ handleCopyFromChar
    \/ handleClose
    \/ handleCharUpdate
    \/ handleOpenImport
    \/ handleCloseImport
    \/ handleParseAndPreview
    \/ handleBack
    \/ selectConversion
    \/ handleFinalImport

Spec == Init /\ [][Next]_vars

\* The import dialog alone.
DialogNext ==
    \/ handleOpenImport
    \/ handleCloseImport
    \/ handleParseAndPreview
    \/ handleBack
    \/ selectConversion
    \/ handleFinalImport

SpecDialog == Init /\ [][DialogNext]_vars

\* ------------------------------------------------------ application's claims
\* A glyph record whose bytes are the encoding of its bitmap: as many bytes as
\* columns, no bit at or above the height, bit height-1-r the pixel of row r.
GlyphRecordOk(charData) ==
    LET height == Len(charData.bitmap)
    IN  /\ Len(charData.bytes) = RowWidth(charData.bitmap)
        /\ \A c \in DOMAIN charData.bytes :
              /\ charData.bytes[c] \in 0..(Pow2(height) - 1)
              /\ \A r \in 0..(height - 1) :
                    (BitAt(charData.bytes[c], height - 1 - r) = 1)
                        <=> Pixel(charData.bitmap, r, c - 1)

\* C2 as claimed: after any sequence of generate, import, conversion, vertical
\* realignment, edit, add, delete and sync every glyph record of the font has
\* as many bytes as columns and bytes that are the encoding of its bitmap, with
\* no bit at or above the height.
C2_Original ==
    fontData # Null =>
        \A i \in DOMAIN fontData.data : GlyphRecordOk(fontData.data[i])

\* ------------------------------------------------- array text parser's claims
Parsed == tOut # None
Uncommented(pieces) == SelectSeq(pieces, LAMBDA piece : piece.kind # "comment")
RECURSIVE ValuesOf(_)
ValuesOf(pieces) ==
    IF pieces = <<>> THEN <<>> ELSE Head(pieces).vals \o ValuesOf(Tail(pieces))
FirstOpen(pieces) ==
    SetMin({i \in DOMAIN pieces : pieces[i].kind = "open"} \cup {Len(pieces) + 1})
LastClose(pieces) ==
    SetMax({i \in DOMAIN pieces : pieces[i].kind = "close"} \cup {0})
HasOpen(pieces) == \E i \in DOMAIN pieces : pieces[i].kind = "open"
HasClose(pieces) == \E i \in DOMAIN pieces : pieces[i].kind = "close"
Enclosed(pieces) ==
    IF FirstOpen(pieces) < LastClose(pieces)
    THEN SubSeq(pieces, FirstOpen(pieces) + 1, LastClose(pieces) - 1)
    ELSE <<>>

\* C11 as the spec states it: the result holds the values between the first
\* opening bracket and the last closing bracket of the comment-stripped text,
\* and the values of the whole stripped text when it has no bracket.
C11_Original ==
    Parsed /\ AllIn(tIn, Pieces) =>
        LET stripped == Uncommented(tIn)
        IN  /\ HasOpen(stripped) /\ HasClose(stripped) =>
                 tOut.numbers = ValuesOf(Enclosed(stripped))
            /\ ~HasOpen(stripped) /\ ~HasClose(stripped) =>
                 tOut.numbers = ValuesOf(stripped)

\* C11: parseArrayString returns, in textual order, the values of the number
\* and character-literal tokens of the comment-stripped text: those strictly
\* between the first opening bracket and the last closing bracket when the
\* first opening bracket comes before the last closing bracket, and those of
\* the whole stripped text otherwise (no bracket, one kind missing, or the
\* last closing bracket before the first opening one).  Comments contribute
\* no value and no bracket, the empty text gives the empty sequence, and
\* "{0x1A, 0x2B, /* x */ 0x3C}" gives 26, 43, 60.
C11_ArrayText ==
    /\ Parsed /\ AllIn(tIn, Pieces) =>
        LET stripped == Uncommented(tIn)
        IN  tOut.numbers =
                IF FirstOpen(stripped) < LastClose(stripped)
                THEN ValuesOf(Enclosed(stripped))
                ELSE ValuesOf(stripped)
    /\ Parsed /\ tIn = <<Example>> => tOut.numbers = <<26, 43, 60>>

\* A declaration, a bracketed body with a comment in it holding a digit and
\* a bracket, parsed to the body's one value.
C11_Witness ==
    /\ Parsed /\ Len(tIn) = 4
    /\ tIn[1].vals = <<8>> /\ tIn[2].kind = "open" /\ tIn[3].kind = "comment"
    /\ tIn[4].kind = "close"
    /\ tOut.numbers = <<>>

\* C12 as the spec states it: every character literal of the body yields the
\* code it is written for: the plain character's code, 10, 13, 9, 39, 34, 92,
\* 0 for the escapes n, r, t, ', ", \, 0, the value of the hex digits of a
\* hex escape, and the escaped character's code for any other escape.
C12_Original ==
    Parsed /\ AllIn(tIn, Literals) => tOut.numbers = ValuesOf(tIn)

\* ------------------------------------ requests under every kind of options
\* Generate and Sync with the size, the spacing and the character set edited
\* to valid and to invalid values; the editor and the import dialog stay
\* closed.
OptionEdits ==
    [name : {"width"}, value : {0, 2}]
        \cup [name : {"height"}, value : {2, 9}]
        \cup [name : {"charSpacing"}, value : {0, 1}]
        \cup [name : {"characterSet"}, value : {<<>>, <<65>>}]

\* handleOptionChange of any of these fields.
handleOptionChangeAny ==
    /\ MainScreen /\ UserAction
    /\ \E edit \in OptionEdits :
         /\ options[edit.name] # edit.value
         /\ options' = [options EXCEPT ![edit.name] = edit.value]
    /\ UNCHANGED <<history, index, error, editingChar, isImportModalOpen, parsedData,
                   importError, codecVars, importVars, previewVars>>

RequestsNext ==
    \/ handleOptionChangeAny
    \/ handleGenerate
    \/ handleGenerateResolved
    \/ handleSync
    \/ handleCharDelete
    \/ undo
    \/ redo

SpecRequests == Init /\ [][RequestsNext]_vars

\* -------------------------------------------------------- requests' claims
RequestFails == (handleGenerate \/ handleSync) /\ error' # "none"

\* C13 as the spec states it: a Generate or Sync request that fails reports
\* the error and leaves the current font data as it was before the request.
C13_Original == [][RequestFails => fontData' = fontData]_vars

\* C15 as the spec states it: Generate in fixed-width mode with width 0,
\* spacing above 0, a height of 1..8 and a non-empty character set is not
\* rejected with a configuration error.
C15_Original ==
    [][handleGenerate /\ ~options.dynamicWidth /\ options.width = 0
           /\ options.charSpacing > 0 /\ options.height \in 1..8
           /\ options.characterSet # <<>>
         => error' = "none" /\ pending' # None]_vars

\* ------------------------------------------------------------ live preview
\* App.tsx 158-182, the effect of [options, previewText].  A run of the effect
\* is a request: it clears the timer debounceTimeout.current names and sets a
\* new one, whose callback closes over the options and the preview text of
\* that render.  A change of a dependency and the run of its effect are one
\* step.  The promise of generatePreviewFontData is settled when it is made,
\* so the callback goes on after its await before any other task runs.
MaxRequests == 4

PreviewTexts == {<<>>, <<65>>, <<65, 10>>}

clearNothing(timerSet, id) == timerSet
clearTimeout(timerSet, id) == {timer \in timerSet : timer.id # id}

\* Lines 159-175 and 177-181: the cleanup of the last run and the new run.
previewEffect(opts, text) ==
    /\ issued < MaxRequests
    /\ issued' = issued + 1
    /\ timers' = clearTimeout(timers, debounceTimeout)
                    \cup {[id |-> issued + 1, options |-> opts, previewText |-> text]}
    /\ debounceTimeout' = issued + 1
    /\ UNCHANGED <<previewData, awaiting, applied>>

\* Line 164: the callback sets the preview to null without rendering.
previewSkipped(opts, text) ==
    \/ opts.width <= 0 \/ opts.height <= 0 \/ opts.height > 8
    \/ opts.characterSet = <<>> \/ text = <<>>

\* Lines 164-175: what the callback calls setPreviewData with.
previewResults(opts, text) ==
    IF previewSkipped(opts, text) \/ generateCharsThrows(opts, text)
    THEN {Null}
    ELSE {Snapshot(generateChars(opts, text, raster)) : raster \in Rasters(opts)}

PreviewInit ==
    /\ CodecIdle /\ ImportIdle
    /\ options = InitOptions
    /\ history = <<Null>> /\ index = 0 /\ pending = None /\ error = "none"
    /\ editingChar = None /\ isImportModalOpen = FALSE
    /\ parsedData = None /\ importError = "none"
    /\ previewText = <<65, 10>>
    /\ previewData = Null
    /\ timers = {[id |-> 1, options |-> InitOptions, previewText |-> <<65, 10>>]}
    /\ debounceTimeout = 1
    /\ awaiting = None
    /\ issued = 1
    /\ applied = 0

setPreviewText ==
    /\ awaiting = None
    /\ \E text \in PreviewTexts \ {previewText} :
         /\ previewText' = text
         /\ previewEffect(options, text)
    /\ UNCHANGED <<options, history, index, pending, error, editingChar,
                   isImportModalOpen, parsedData, importError, codecVars, importVars>>

setOptions ==
    /\ awaiting = None
    /\ \E edit \in OptionEdits :
         /\ options[edit.name] # edit.value
         /\ options' = [options EXCEPT ![edit.name] = edit.value]
         /\ previewEffect(options', previewText)
    /\ UNCHANGED <<previewText, history, index, pending, error, editingChar,
                   isImportModalOpen, parsedData, importError, codecVars, importVars>>

\* A timer fires: its callback runs up to its return or its await.
debounceTimerFires ==
    /\ awaiting = None
    /\ \E timer \in timers :
         /\ timers' = timers \ {timer}
         /\ IF previewSkipped(timer.options, timer.previewText)
            THEN /\ previewData' = Null
                 /\ applied' = timer.id
                 /\ UNCHANGED awaiting
            ELSE /\ awaiting' = timer
                 /\ UNCHANGED <<previewData, applied>>
    /\ UNCHANGED <<previewText, debounceTimeout, issued, options, history, index,
                   pending, error, editingChar, isImportModalOpen, parsedData,
                   importError, codecVars, importVars>>

\* The callback goes on after its await.
previewResolved ==
    /\ awaiting # None
    /\ previewData' \in previewResults(awaiting.options, awaiting.previewText)
    /\ applied' = awaiting.id
    /\ awaiting' = None
    /\ UNCHANGED <<previewText, timers, debounceTimeout, issued, options, history,
                   index, pending, error, editingChar, isImportModalOpen, parsedData,
                   importError, codecVars, importVars>>

PreviewNext ==
    \/ setPreviewText
    \/ setOptions
    \/ debounceTimerFires
    \/ previewResolved

SpecPreview == PreviewInit /\ [][PreviewNext]_vars

\* --------------------------------------------------- live preview's claims
\* C14: a result is applied to previewData only when it is the result of the
\* request issued last, so the result of an older request is never applied
\* once a newer request has been issued; and when no request is pending or in
\* flight any more and one has been applied, the preview is the one computed
\* from the current options and preview text.
C14_LatestOnly ==
    /\ [][applied' # applied => applied' = issued]_vars
    /\ [](timers = {} /\ awaiting = None /\ applied > 0
            => /\ applied = issued
               /\ previewData \in previewResults(options, previewText))

\* A request superseded while its timer was pending, and the newer request's
\* result applied.
C14_Witness ==
    /\ issued >= 2 /\ applied = issued /\ timers = {} /\ awaiting = None
    /\ previewData # Null

\* ------------------------------------------- rasterization, batch by batch
\* One call of generateChars on a list of characters, with a rasterizer that
\* sets every pixel of the render area.
BatchChars == {10, 32, 65}

BatchInit ==
    /\ AppIdle /\ ImportIdle
    /\ cCur = None
    /\ cOps = <<>>
    /\ \E characters \in SeqsUpTo(BatchChars, MaxChars + 1) :
         cSrc = [characters |-> characters]
    /\ \E width \in (-1)..MaxW, height \in 1..MaxH, charSpacing \in 0..1,
          dynamicWidth \in BOOLEAN :
         cOpt = [width |-> width, height |-> height, charSpacing |-> charSpacing,
                 characterSet |-> cSrc.characters, dynamicWidth |-> dynamicWidth]

ApplyGenerateCharsBatch ==
    /\ cOps = <<>>
    /\ ~generateCharsThrows(cOpt, cSrc.characters)
    /\ LET raster == [char \in BatchChars |->
                         [y \in 1..cOpt.height |-> [x \in 1..cOpt.width |-> TRUE]]]
       IN  cCur' = [batch |-> generateChars(cOpt, cSrc.characters, raster)]
    /\ cOps' = <<"generateChars">>
    /\ UNCHANGED <<cSrc, cOpt, appVars, importVars>>

SpecBatch == BatchInit /\ [][ApplyGenerateCharsBatch]_vars

\* ------------------------------------------------- rasterization's claims
\* A glyph of `height` all-false rows of `width` columns, with all-zero bytes.
BlankGlyph(charData, height, width) ==
    /\ Len(charData.bitmap) = height
    /\ \A y \in 1..height : charData.bitmap[y] = Fill(width, FALSE)
    /\ charData.bytes = Fill(width, 0)

\* C16: generateChars returns one glyph record per input character, in input
\* order, duplicates kept.  When the render width is <= 0 every glyph is
\* all-false with `height` rows and width 0 (dynamic) or spacing (fixed);
\* otherwise a whitespace character other than the space yields an all-false
\* glyph with `height` rows and width 0 (dynamic) or width + spacing (fixed),
\* whatever the rasterizer would draw.
C16_BatchShape ==
    cOps = <<"generateChars">> /\ "batch" \in DOMAIN cCur =>
        LET characters == cSrc.characters
            batch == cCur.batch
        IN  /\ Len(batch) = Len(characters)
            /\ \A i \in DOMAIN characters :
                 /\ batch[i].char = characters[i]
                 /\ cOpt.width <= 0 =>
                      BlankGlyph(batch[i], cOpt.height,
                                 IF cOpt.dynamicWidth THEN 0 ELSE cOpt.charSpacing)
                 /\ cOpt.width > 0 /\ characters[i] = 10 =>
                      BlankGlyph(batch[i], cOpt.height,
                                 IF cOpt.dynamicWidth THEN 0
                                 ELSE cOpt.width + cOpt.charSpacing)

\* A line feed twice around an "A", fixed width with spacing.
C16_Witness ==
    /\ cOps = <<"generateChars">> /\ "batch" \in DOMAIN cCur
    /\ cSrc.characters = <<10, 65, 10>>
    /\ ~cOpt.dynamicWidth /\ cOpt.width = 2 /\ cOpt.charSpacing = 1
    /\ Len(cCur.batch) = 3
    /\ cCur.batch[2].bitmap[1] = <<TRUE, TRUE, FALSE>>
    /\ cCur.batch[1].bitmap[1] = <<FALSE, FALSE, FALSE>>

\* ---------------------------------------- realignment's and widths' claims
SetPixels(bitmap) ==
    {<<r, c>> \in (DOMAIN bitmap) \X (1..RowWidth(bitmap)) : bitmap[r][c]}
Aligned == cOps = <<"alignBitmap">>
AlignedTwice == cOps = <<"alignBitmap", "alignBitmap">>

\* C17: for a bitmap with a set pixel, alignBitmap returns a bitmap of the
\* same height and width whose row 0 ('top') or last row ('bottom') has a set
\* pixel; the rows from the first to the last set row are moved unchanged and
\* in order, every other row of the result is all-false, and the number of
\* set pixels is the same.
C17_Realigned ==
    Aligned /\ ~IsBlank(cSrc.bitmap) =>
        LET before == cSrc.bitmap
            after == cCur.bitmap
            height == Len(before)
            first == SetMin(SetRows(before))
            last == SetMax(SetRows(before))
            \* the row of the result the first set row went to, 0-based
            target == IF cOpt.verticalAlign = "top" THEN 0
                      ELSE (height - 1) - (last - first)
        IN  /\ Len(after) = height
            /\ \A r \in 1..height : Len(after[r]) = RowWidth(before)
            /\ cOpt.verticalAlign = "top" => RowSet(after, 0)
            /\ cOpt.verticalAlign = "bottom" => RowSet(after, height - 1)
            /\ \A k \in 0..(last - first) : after[target + k + 1] = before[first + k + 1]
            /\ \A r \in 0..(height - 1) :
                 r < target \/ r > target + (last - first) => ~RowSet(after, r)
            /\ Cardinality(SetPixels(after)) = Cardinality(SetPixels(before))

\* A glyph of three rows with its pixels in the first row only, moved to the
\* bottom.
C17_Witness ==
    /\ Aligned /\ cOpt.verticalAlign = "bottom"
    /\ Len(cSrc.bitmap) = 3 /\ SetRows(cSrc.bitmap) = {0}
    /\ SetRows(cCur.bitmap) = {2}

\* C18: alignBitmap returns the bitmap unchanged when it has no set pixel,
\* when the direction is 'top' and row 0 has a set pixel, and when the
\* direction is 'bottom' and the last row has a set pixel; the same
\* realignment applied a second time changes nothing.
C18_NoOp ==
    /\ [](Aligned /\ (\/ IsBlank(cSrc.bitmap)
                      \/ cOpt.verticalAlign = "top" /\ RowSet(cSrc.bitmap, 0)
                      \/ /\ cOpt.verticalAlign = "bottom"
                         /\ RowSet(cSrc.bitmap, Len(cSrc.bitmap) - 1))
            => cCur.bitmap = cSrc.bitmap)
    /\ [][Aligned /\ AlignedTwice' => cCur'.bitmap = cCur.bitmap]_vars

\* A glyph moved up by the first realignment and realigned again.
C18_Witness ==
    /\ AlignedTwice /\ cOpt.verticalAlign = "top"
    /\ ~IsBlank(cSrc.bitmap) /\ ~RowSet(cSrc.bitmap, 0)
    /\ RowSet(cCur.bitmap, 0)

\* C19 as the spec states it: convertToFixed to a width of 1 or more returns
\* a glyph whose rows and bytes have that many columns, whose leading columns
\* are the original's, whose added columns are all-false with byte 0, and
\* whose bytes are the encoding of its bitmap.
C19_Original ==
    cOps = <<"convertToFixed">> /\ "newFixedWidth" \in DOMAIN cOpt =>
        LET targetWidth == cOpt.newFixedWidth
            kept == Min(cSrc.width, targetWidth)
        IN  /\ \A y \in DOMAIN cCur.bitmap :
                 /\ Len(cCur.bitmap[y]) = targetWidth
                 /\ SubSeq(cCur.bitmap[y], 1, kept) = SubSeq(cSrc.bitmap[y], 1, kept)
                 /\ \A x \in (kept + 1)..targetWidth : ~cCur.bitmap[y][x]
            /\ Len(cCur.bytes) = targetWidth
            /\ \A x \in (kept + 1)..targetWidth : cCur.bytes[x] = 0
            /\ cCur.bytes = bitmapToBytes(cCur.bitmap, cSrc.height)

\* C20: for a glyph that is not the space character, convertToDynamic applied
\* to the glyph convertToDynamic returned gives the same bitmap and bytes.
C20_TrimIdempotent ==
    [][(/\ cOps = <<"convertToDynamic">>
        /\ cOps' = <<"convertToDynamic", "convertToDynamic">>
        /\ cSrc.char # 32)
         => cCur'.bitmap = cCur.bitmap /\ cCur'.bytes = cCur.bytes]_vars

\* A glyph with empty columns on both sides, trimmed twice.
C20_Witness ==
    /\ cOps = <<"convertToDynamic", "convertToDynamic">>
    /\ cSrc.char # 32
    /\ cSrc.width = MaxW /\ SetColumns(cSrc.bitmap) # {}
    /\ 0 \notin SetColumns(cSrc.bitmap)
    /\ RowWidth(cCur.bitmap) < cSrc.width /\ ~IsBlank(cCur.bitmap)

\* ------------------------------------------------------- emitter's claims
\* C21: the tables generateCode writes for a dynamic-width font of distinct
\* characters have widths[i] = the number of bytes of glyph i, offsets[0] = 0,
\* offsets[i+1] = offsets[i] + widths[i], and the glyphs' bytes one after the
\* other as data; the dynamic import of these tables with the font's
\* characters and a height of 1..8 succeeds and gives every glyph its bytes.
C21_ExportImport ==
    pOut # None /\ pOut.error # "unparsed" /\ "exported" \in DOMAIN pIn =>
        LET font == pIn.exported
            n == Len(font)
        IN  /\ Len(pIn.widths) = n /\ Len(pIn.offsets) = n
            /\ \A i \in 1..n : pIn.widths[i] = Len(font[i].bytes)
            /\ n > 0 => pIn.offsets[1] = 0
            /\ \A i \in 1..(n - 1) : pIn.offsets[i + 1] = pIn.offsets[i] + pIn.widths[i]
            /\ Len(pIn.dataBytes) = (IF n = 0 THEN 0 ELSE pIn.offsets[n] + pIn.widths[n])
            /\ \A i \in 1..n : \A k \in 1..pIn.widths[i] :
                 pIn.dataBytes[pIn.offsets[i] + k] = font[i].bytes[k]
            /\ pOut.error = "none"
            /\ Len(pOut.fontData) = n
            /\ \A i \in 1..n :
                 /\ pOut.fontData[i].char = font[i].char
                 /\ pOut.fontData[i].bytes = font[i].bytes

\* Two glyphs of different widths, the first of them the wider one.
C21_Witness ==
    /\ pOut # None /\ pOut.error = "none" /\ "exported" \in DOMAIN pIn
    /\ Len(pIn.exported) = 2
    /\ pIn.widths = <<2, 1>> /\ pIn.offsets = <<0, 2>>
    /\ pOut.fontData[2].bytes = <<255>>

\* ---------------------------------------------------------- Sync, case by case
\* The glyph records a font can hold at the options of Init: as generated, as
\* saved from the glyph editor with every pixel set, and as imported with one
\* column.
SyncGlyphs ==
    UNION {{generateChars(InitOptions, <<char>>, raster)[1] : raster \in Rasters(InitOptions)}
           \cup {[char |-> char, codePoint |-> char,
                  bitmap |-> [y \in 1..InitOptions.height |-> Fill(InitOptions.width, TRUE)],
                  bytes |-> Fill(InitOptions.width, Pow2(InitOptions.height) - 1)],
                 [char |-> char, ascii |-> char,
                  bitmap |-> [y \in 1..InitOptions.height |-> <<TRUE>>],
                  bytes |-> <<Pow2(InitOptions.height) - 1>>]} :
           char \in AppChars}

\* A font on the main screen and any text in the character set field.
SyncInit ==
    /\ CodecIdle /\ ImportIdle /\ PreviewIdle
    /\ \E data \in SeqsUpTo(SyncGlyphs, MaxFont), characterSet \in SeqsUpTo(AppChars, MaxFont) :
         /\ history = <<Snapshot(data)>>
         /\ options = [InitOptions EXCEPT !.characterSet = characterSet]
    /\ index = 0
    /\ pending = None
    /\ error = "none"
    /\ editingChar = None
    /\ isImportModalOpen = FALSE
    /\ parsedData = None
    /\ importError = "none"

SyncNext == handleSync \/ undo \/ redo

SpecSync == SyncInit /\ [][SyncNext]_vars

\* How many records of a font are this record.
CountOf(data, charData) == Cardinality({i \in DOMAIN data : data[i] = charData})

\* C22: after a successful Sync the font has a glyph for exactly the characters
\* of the character set; every record of the font before whose character is in
\* the set is in the font as it was (as many times as before), no record of a
\* character outside the set is left, and the only new records are one for
\* each character of the set that the font had no glyph for.
C22_SyncKeeps ==
    [][(handleSync /\ error' = "none") =>
         LET old == fontData.data
             new == fontData'.data
             wanted == CharSet(options.characterSet)
             had == CharSet(CharsOf(old))
         IN  /\ CharSet(CharsOf(new)) = wanted
             /\ \A i \in DOMAIN old :
                   old[i].char \in wanted => CountOf(new, old[i]) = CountOf(old, old[i])
             /\ \A j \in DOMAIN new :
                   new[j].char \in had => CountOf(old, new[j]) > 0
             /\ \A char \in wanted \ had :
                   Cardinality({j \in DOMAIN new : new[j].char = char}) = 1
             /\ Len(history') = index + 2 /\ index' = index + 1
      ]_vars

\* A Sync has removed the space, kept the edited A and the imported A as they
\* were.
C22_Witness ==
    /\ Len(history) = 2 /\ index = 1
    /\ Len(history[1].data) = 2
    /\ history[1].data[1].char = 32
    /\ history[1].data[2].char = 65
    /\ history[1].data[2].bytes = Fill(InitOptions.width, Pow2(InitOptions.height) - 1)
    /\ fontData.data = <<history[1].data[2]>>

\* ------------------------------------------------------------ history's claims
\* C23: after any sequence of set, undo and redo calls, the set calls of the
\* continuation of handleGenerate with the history and index it closed over
\* included, the index is a position of the history, so that the current state
\* is defined; canUndo holds exactly when there is an entry before the current
\* one and canRedo exactly when there is one after it.
C23_CursorInRange ==
    /\ index \in 0..(Len(history) - 1)
    /\ fontData = Null \/ fontData = Snapshot(fontData.data)
    /\ canUndo <=> \E k \in DOMAIN history : k < index + 1
    /\ canRedo <=> \E k \in DOMAIN history : k > index + 1

\* The results of two Generates were stored, each by the continuation that
\* closed over the history and index of before the font was set to null.
C23_Witness ==
    /\ history[1] = Null /\ Len(history) = 3 /\ index = 2
    /\ pending = None
    /\ history[2] # Null /\ history[3] # Null

\* What set(value) leaves, called with history h and index i.
SetLeaves(h, i) ==
    /\ Len(history') = i + 2
    /\ index' = i + 1
    /\ ~canRedo'
    /\ \A k \in 1..(i + 1) : history'[k] = h[k]

C25_Original ==
    [][handleGenerateResolved =>
         \A k \in (pending.index + 2)..Len(history) :
            history[k] # Null => \E j \in DOMAIN history' : history'[j] = history[k]
      ]_vars

C26_Original ==
    fontData # Null =>
        \A i, j \in DOMAIN fontData.data :
            i # j => fontData.data[i].char # fontData.data[j].char

\* C27: whenever the current font changes to a font (not to null), by generate,
\* sync, import, add, delete, edit, undo or redo, the character set text is,
\* once the effect on fontData has run, the characters of the font's glyph
\* records in their order.
C27_CharacterSetFollows ==
    [][(fontData' # fontData /\ fontData' # Null) =>
          options'.characterSet = CharsOf(fontData'.data)]_vars

\* Undo has led back to a font of one glyph from a font of two, and the text
\* has the one character.
C27_Witness ==
    /\ canRedo /\ fontData # Null /\ history[index + 2] # Null
    /\ Len(fontData.data) = 1 /\ Len(history[index + 2].data) = 2
    /\ options.characterSet = CharsOf(fontData.data)

\* ------------------------------------------------------ glyph editor's claims
\* C28 as claimed: Save of the glyph editor opened on glyph i of the font
\* pushes one snapshot in which glyph i has the saved bitmap and the bytes that
\* encode it at options.height, and in which every other record and the order
\* of the records are as before; closing the editor without saving leaves the
\* history and the index as they were.
C28_Original ==
    [][/\ handleCharUpdate =>
             LET i == editingChar.index
             IN  /\ fontData # Null /\ fontData' # Null
                 /\ Len(history') = index + 2 /\ index' = index + 1
                 /\ SubSeq(history', 1, index + 1) = SubSeq(history, 1, index + 1)
                 /\ Len(fontData'.data) = Len(fontData.data)
                 /\ i + 1 \in DOMAIN fontData'.data
                 /\ fontData'.data[i + 1] =
                       [fontData.data[i + 1] EXCEPT
                           !.bitmap = editingChar.bitmap,
                           !.bytes = newBytes(editingChar.bitmap, options.height)]
                 /\ \A k \in DOMAIN fontData.data :
                       k # i + 1 => fontData'.data[k] = fontData.data[k]
       /\ handleClose => history' = history /\ index' = index
      ]_vars

\* All rows of a bitmap have the length of the first one.
Rectangular(bitmap) == \A y \in DOMAIN bitmap : Len(bitmap[y]) = RowWidth(bitmap)
SameSize(a, b) == Len(a) = Len(b) /\ RowWidth(a) = RowWidth(b)
EditorOp == IF cOps = <<>> THEN "none" ELSE cOps[1]

\* C29: from a rectangular bitmap every operation of the glyph editor gives a
\* rectangular bitmap; a width button gives the width changed by one, never
\* below 0, with the columns that stay as they were and the added column
\* all-false; a toggle and a shift leave the number of rows and the width as
\* they were; a toggle changes the pixel clicked and no other; a shift moves
\* every pixel by one position, drops those at the edge and leaves the vacated
\* row or column all-false.
C29_EditorKeepsShape ==
    LET old == cSrc.bitmap
        new == cCur.bitmap
        h == Len(old)
        w == RowWidth(old)
    IN  /\ EditorOp \in {"handleWidthChange", "handlePixelToggle", "handleShift",
                         "handleCopyFromChar"} =>
              Rectangular(old) /\ Rectangular(new) /\ RowWidth(new) >= 0
        /\ EditorOp = "handleWidthChange" =>
              /\ Len(new) = h
              /\ RowWidth(new) = Max(0, w + cOpt.delta)
              /\ \A y \in 0..(h - 1), x \in 0..(RowWidth(new) - 1) :
                    Pixel(new, y, x) = (x < w /\ Pixel(old, y, x))
        /\ EditorOp = "handlePixelToggle" =>
              /\ SameSize(new, old)
              /\ \A y \in 0..(h - 1), x \in 0..(w - 1) :
                    (Pixel(new, y, x) # Pixel(old, y, x))
                        <=> (x = cOpt.x /\ y = cOpt.y)
        /\ EditorOp = "handleShift" =>
              /\ SameSize(new, old)
              /\ LET dx == IF cOpt.direction = "left" THEN 1
                           ELSE IF cOpt.direction = "right" THEN -1 ELSE 0
                     dy == IF cOpt.direction = "up" THEN 1
                           ELSE IF cOpt.direction = "down" THEN -1 ELSE 0
                 IN  \A y \in 0..(h - 1), x \in 0..(w - 1) :
                        Pixel(new, y, x) =
                            (/\ y + dy \in 0..(h - 1)
                             /\ x + dx \in 0..(w - 1)
                             /\ Pixel(old, y + dy, x + dx))

\* A shift to the right has dropped the set pixels of the last column and left
\* the first column all-false.
C29_Witness ==
    /\ EditorOp = "handleShift" /\ cOpt.direction = "right"
    /\ Len(cSrc.bitmap) = MaxH /\ RowWidth(cSrc.bitmap) = 2
    /\ \A y \in 0..(MaxH - 1) : ~Pixel(cSrc.bitmap, y, 0) /\ Pixel(cSrc.bitmap, y, 1)
    /\ \A y \in 0..(MaxH - 1) : ~Pixel(cCur.bitmap, y, 0) /\ ~Pixel(cCur.bitmap, y, 1)

\* ----------------------------------------------------- import dialog's claims
\* The glyphs of a parse after the conversion and the alignment selected.
Converted(parsed, conversionMode, newFixedWidth) ==
    IF conversionMode # "convert" THEN parsed.fontData
    ELSE IF parsed.fontOptions.dynamicWidth
    THEN convertToFixed(parsed.fontData, newFixedWidth)
    ELSE convertToDynamic(parsed.fontData, parsed.fontOptions.width).newData
Realigned(data, verticalAlign, height) ==
    IF verticalAlign = "keep" THEN data
    ELSE [i \in DOMAIN data |->
             [data[i] EXCEPT
                 !.bitmap = alignBitmap(data[i].bitmap, verticalAlign),
                 !.bytes = bitmapToBytes(alignBitmap(data[i].bitmap, verticalAlign),
                                         height)]]

\* The dialog is in its conversion step with the result of a parse that
\* succeeded.
ConversionStep ==
    /\ isImportModalOpen
    /\ \E form \in AppForms :
         /\ parseImportedData(form).error = "none"
         /\ parsedData.fontData = parseImportedData(form).fontData
         /\ parsedData.fontOptions = parseImportedData(form).fontOptions

\* C30: the dialog holds parsed data only in its conversion step, as the
\* result of a parse that succeeded; Back drops it; onImport is called by
\* Confirm in the conversion step only, once (one snapshot is pushed), with
\* the glyphs of that parse after the conversion and the alignment selected;
\* a parse that fails reports its error, leaves the dialog in the form step
\* and changes neither the history nor the options of the application.
C30_TwoSteps ==
    [][/\ parsedData' # None => ConversionStep'
       /\ handleFinalImport =>
            /\ ConversionStep
            /\ Len(history') = index + 2 /\ index' = index + 1
            /\ SubSeq(history', 1, index + 1) = SubSeq(history, 1, index + 1)
            /\ fontData' = Snapshot(Realigned(Converted(parsedData,
                                                        parsedData.conversionMode,
                                                        parsedData.newFixedWidth),
                                              parsedData.verticalAlign,
                                              parsedData.fontOptions.height))
            /\ ~isImportModalOpen' /\ parsedData' = None
       /\ handleBack => parsedData' = None /\ isImportModalOpen'
       /\ (handleParseAndPreview /\ importError' # "none") =>
            /\ parsedData = None /\ parsedData' = None /\ isImportModalOpen'
            /\ history' = history /\ index' = index /\ options' = options
      ]_vars

\* A fixed-width font of two glyphs was parsed, converted to dynamic width,
\* aligned to the bottom and imported: the dialog is closed and the A, whose
\* data byte has the top pixel, has the bottom pixel.
C30_Witness ==
    /\ ~isImportModalOpen /\ parsedData = None
    /\ fontData # Null /\ Len(fontData.data) = 2
    /\ \A i \in DOMAIN fontData.data : HasAscii(fontData.data[i])
    /\ options.dynamicWidth
    /\ fontData.data[2].bitmap = <<<<FALSE>>, <<TRUE>>>>
    /\ fontData.data[2].bytes = <<1>>


=============================================================================
